---- MODULE Spec2Model ----
(***************************************************************************)
(* A model of dyrics: the rate-limited lookahead scheduler of              *)
(* src/src/discord.rs (RateLimiter, status_loop), the shared playback      *)
(* snapshot written by src/src/spotify.rs (step_loop, resync_loop,         *)
(* sync_once) and the timed-line view of src/src/lyrics.rs.                *)
(*                                                                         *)
(* Durations are whole milliseconds.  A String is a sequence of one-       *)
(* character strings, so that concatenation and joining are computed as    *)
(* the code computes them.  Option<T> is a sequence: NoneVal is the empty  *)
(* one and Some(x) holds x alone.                                          *)
(***************************************************************************)
EXTENDS Integers, Sequences, FiniteSets, Bags, TLC

(***************************************************************************)
(* Program constants (src/src/discord.rs:21-34, src/src/spotify.rs:77).    *)
(***************************************************************************)
RATE_LIMIT_MAX_UPDATES == 3
RATE_LIMIT_WINDOW == 10000
MIN_UPDATE_INTERVAL == 3334
BATCH_SEPARATOR == <<".", " ">>
MIN_LATENCY_MS == 10
MAX_LATENCY_MS == 2000
STEP_INTERVAL == 50

NoneVal == <<>>
Some(x) == <<x>>
Unwrap(o) == o[1]

(***************************************************************************)
(* Bounds of the model.                                                    *)
(***************************************************************************)
\* longest line list handed to build_schedule in SpecSched
MaxLines == 4
\* outbound calls the RateLimiter's client issues in one behaviour
MaxCalls == 4
\* idle clock steps (of IdleStep ms) in one behaviour of that client
MaxIdleSteps == 2
\* outbound calls status_loop issues in one behaviour
MaxProgCalls == 3
\* idle clock steps (of IdleStep ms) in one behaviour of the program
MaxProgIdle == 1
\* step_loop ticks between two writes of sync_once
MaxSteps == 1
\* completed outbound calls in one behaviour of the latency specification
MaxSamples == 3
\* clock steps (of WindowStep ms) in one behaviour of the window specification
MaxWindowSteps == 11
\* most lines of the lyrics handed to get_text_at in SpecText
MaxTextLines == 3
\* outbound calls status_loop issues in one behaviour of the fair program
MaxLiveCalls == 4
\* outbound calls status_loop issues in one behaviour while a queue drains
MaxDrainCalls == 3
\* idle clock steps (of IdleStep ms) of the fair program while the rate gate
\* has capacity
MaxLiveIdle == 1
\* the position (ms) up to which step_loop ticks in the fair program
MaxLivePosition == 3400

(***************************************************************************)
(* Strings.                                                                *)
(***************************************************************************)
RECURSIVE Join(_, _)
\* [&str]::join(sep): the texts with sep between consecutive ones
Join(texts, sep) ==
  IF texts = <<>> THEN <<>>
  ELSE IF Len(texts) = 1 THEN texts[1]
  ELSE texts[1] \o sep \o Join(Tail(texts), sep)

RECURSIVE SplitFrom(_, _, _)
\* str::split(sep) for the two-character separator: the pieces of s, cur
\* being the piece under construction
SplitFrom(s, sep, cur) ==
  IF s = <<>> THEN <<cur>>
  ELSE IF Len(s) >= Len(sep) /\ SubSeq(s, 1, Len(sep)) = sep
       THEN <<cur>> \o SplitFrom(SubSeq(s, Len(sep) + 1, Len(s)), sep, <<>>)
       ELSE SplitFrom(Tail(s), sep, Append(cur, Head(s)))

Split(s, sep) == SplitFrom(s, sep, <<>>)

(***************************************************************************)
(* Lyrics::get_timed_lines (src/src/lyrics.rs:162-193).  A Lyrics value is *)
(* its content: the tag (Syllable or Line) and the lines.                  *)
(***************************************************************************)
\* a TimedLine (src/src/lyrics.rs:153-160)
TimedLine(txt, s, e) == [text |-> txt, start_time |-> s, end_time |-> e]

RECURSIVE SyllableText(_, _)
\* the loop over line.lead.syllables: a space goes before a syllable that
\* does not continue a word, unless the text is still empty
SyllableText(syllables, text) ==
  IF syllables = <<>> THEN text
  ELSE
    LET syllable == Head(syllables)
        spaced == IF text # <<>> /\ ~syllable.is_part_of_word
                  THEN Append(text, " ") ELSE text
    IN  SyllableText(Tail(syllables), spaced \o syllable.text)

\* mutant: the times are those of the first and of the last syllable
SyllableTimedLine_OfSyllables(line) ==
  TimedLine(SyllableText(line.lead.syllables, <<>>),
            Head(line.lead.syllables).start_time,
            line.lead.syllables[Len(line.lead.syllables)].end_time)

\* the TimedLine of one line of syllable-synced lyrics
SyllableTimedLine(line) ==
  TimedLine(SyllableText(line.lead.syllables, <<>>),
            line.lead.start_time, line.lead.end_time)

\* the TimedLine of one line of line-synced lyrics
LineTimedLine(line) == TimedLine(line.text, line.start_time, line.end_time)

\* get_timed_lines
GetTimedLines(lyrics) ==
  IF lyrics.tag = "Syllable"
  THEN [i \in 1..Len(lyrics.content) |-> SyllableTimedLine(lyrics.content[i])]
  ELSE [i \in 1..Len(lyrics.content) |-> LineTimedLine(lyrics.content[i])]

(***************************************************************************)
(* Lyrics::get_text_at, find_nearest_syllable_line and find_nearest_line   *)
(* (src/src/lyrics.rs:99-149).                                             *)
(***************************************************************************)
\* the timed part of a line: line.lead for syllable-synced lyrics
TimedPart(tag, line) == IF tag = "Syllable" THEN line.lead ELSE line

\* the key of min_by_key: zero inside the line, else the distance to it
NearestKey(span, target) ==
  IF span.start_time <= target /\ target <= span.end_time THEN 0
  ELSE IF target < span.start_time THEN span.start_time - target
  ELSE target - span.end_time

\* mutant: of several minimal lines the last one is kept
KeepsBest_Last(best_key, key) == best_key < key

\* min_by_key keeps the element it holds unless the next one has a strictly
\* smaller key
KeepsBest(best_key, key) == best_key <= key

RECURSIVE MinByKeyFrom(_, _, _, _, _)
\* Iterator::min_by_key over lines[i..], best being the index held so far
MinByKeyFrom(tag, lines, target, i, best) ==
  IF i > Len(lines) THEN best
  ELSE IF KeepsBest(NearestKey(TimedPart(tag, lines[best]), target),
                    NearestKey(TimedPart(tag, lines[i]), target))
       THEN MinByKeyFrom(tag, lines, target, i + 1, best)
       ELSE MinByKeyFrom(tag, lines, target, i + 1, i)

\* find_nearest_syllable_line / find_nearest_line: the index of the line found
FindNearest(tag, lines, target) ==
  IF lines = <<>> THEN NoneVal
  ELSE Some(MinByKeyFrom(tag, lines, target, 2, 1))

\* get_text_at
GetTextAt(lyrics, timestamp) ==
  LET found == FindNearest(lyrics.tag, lyrics.content, timestamp) IN
  IF found = NoneVal THEN NoneVal
  ELSE LET line == lyrics.content[Unwrap(found)] IN
       IF lyrics.tag = "Syllable"
       THEN Some(SyllableText(line.lead.syllables, <<>>))
       ELSE Some(line.text)

(***************************************************************************)
(* RateLimiter::build_schedule (src/src/discord.rs:118-183).               *)
(***************************************************************************)
\* a ScheduledUpdate
ScheduledUpdate(t, txt) == [display_time |-> t, text |-> txt]

\* mutant: a line ending exactly at current_position is kept
FilterUpcoming_Inclusive(lines, current_position) ==
  SelectSeq(lines, LAMBDA l : l.end_time >= current_position)

\* lines.iter().filter(|l| l.end_time > current_position)
FilterUpcoming(lines, current_position) ==
  SelectSeq(lines, LAMBDA l : l.end_time > current_position)

\* mutant: an unstable sort, equal keys end up in reverse input order
InsertByStart_Unstable(sorted, l) ==
  LET k == Cardinality({j \in 1..Len(sorted) : sorted[j].start_time < l.start_time})
  IN  SubSeq(sorted, 1, k) \o <<l>> \o SubSeq(sorted, k + 1, Len(sorted))

\* one insertion of the stable sort: l goes after every element whose key is
\* not greater than its own
InsertByStart(sorted, l) ==
  LET k == Cardinality({j \in 1..Len(sorted) : sorted[j].start_time <= l.start_time})
  IN  SubSeq(sorted, 1, k) \o <<l>> \o SubSeq(sorted, k + 1, Len(sorted))

RECURSIVE SortFrom(_, _)
SortFrom(lines, sorted) ==
  IF lines = <<>> THEN sorted
  ELSE SortFrom(Tail(lines), InsertByStart(sorted, Head(lines)))

\* mutant: the lines are taken in input order
SortByStart_InputOrder(lines) == lines

\* upcoming.sort_by_key(|l| l.start_time): a stable sort
SortByStart(lines) == SortFrom(lines, <<>>)

Upcoming(lines, current_position) ==
  SortByStart(FilterUpcoming(lines, current_position))

RECURSIVE BatchEnd(_, _, _)
\* the inner while loop: batch_end advances over the lines that start
\* before next_available (indices are 1-based here)
BatchEnd(upcoming, batch_end, next_available) ==
  IF batch_end <= Len(upcoming) /\ upcoming[batch_end].start_time < next_available
  THEN BatchEnd(upcoming, batch_end + 1, next_available)
  ELSE batch_end

\* the texts of upcoming[batch_start..batch_end)
BatchTexts(upcoming, batch_start, batch_end) ==
  [j \in 1..(batch_end - batch_start) |-> upcoming[batch_start + j - 1].text]

\* mutant: the minimum interval is not added
NextAvailableAfter_NoGap(line) == line.start_time

\* next_available after an update anchored at line
NextAvailableAfter(line) == line.start_time + MIN_UPDATE_INTERVAL

\* mutant: the update is anchored at the end of the line
PushOwnUpdate_AtEnd(schedule, line) ==
  Append(schedule, [display_time |-> line.end_time, text |-> line.text])

\* the branch taken when next_available <= line.start_time
PushOwnUpdate(schedule, line) ==
  Append(schedule, ScheduledUpdate(line.start_time, line.text))

\* mutant: no separator between the previous text and the batch
MergeIntoPrev_NoSeparator(schedule, texts) ==
  [schedule EXCEPT ![Len(schedule)].text = @ \o Join(texts, BATCH_SEPARATOR)]

\* mutant: merging moves the previous update one interval later
MergeIntoPrev_Postponed(schedule, texts) ==
  [schedule EXCEPT ![Len(schedule)] =
      ScheduledUpdate(@.display_time + MIN_UPDATE_INTERVAL,
                      @.text \o BATCH_SEPARATOR \o Join(texts, BATCH_SEPARATOR))]

\* the branch merging a batch into the previous update (schedule.back_mut())
MergeIntoPrev(schedule, texts) ==
  [schedule EXCEPT ![Len(schedule)].text =
      @ \o BATCH_SEPARATOR \o Join(texts, BATCH_SEPARATOR)]

\* mutant: the first update shows the first line of the batch alone
SeedUpdate_FirstOnly(line, texts) ==
  <<ScheduledUpdate(line.start_time, line.text)>>

\* the branch seeding the first update with a whole batch
SeedUpdate(line, texts) ==
  <<ScheduledUpdate(line.start_time, Join(texts, BATCH_SEPARATOR))>>

RECURSIVE ScheduleLoop(_, _, _, _)
\* the outer while loop over upcoming, from index i
ScheduleLoop(upcoming, i, schedule, next_available) ==
  IF i > Len(upcoming) THEN schedule
  ELSE
    LET line == upcoming[i] IN
    IF next_available <= line.start_time
    THEN ScheduleLoop(upcoming, i + 1, PushOwnUpdate(schedule, line),
                      NextAvailableAfter(line))
    ELSE
      LET batch_end == BatchEnd(upcoming, i + 1, next_available)
          texts == BatchTexts(upcoming, i, batch_end)
      IN  IF schedule # <<>>
          THEN ScheduleLoop(upcoming, batch_end, MergeIntoPrev(schedule, texts),
                            next_available)
          ELSE ScheduleLoop(upcoming, batch_end, SeedUpdate(line, texts),
                            NextAvailableAfter(line))

\* the schedule build_schedule leaves in self.schedule
BuildSchedule(lines, current_position) ==
  ScheduleLoop(Upcoming(lines, current_position), 1, <<>>, current_position)

(***************************************************************************)
(* The rate window (src/src/discord.rs:73-88).                             *)
(***************************************************************************)
RECURSIVE CleanupOldTimestamps_Inclusive(_, _)
\* mutant: a timestamp exactly one window old is already dropped
CleanupOldTimestamps_Inclusive(timestamps, t) ==
  IF timestamps # <<>> /\ t - Head(timestamps) >= RATE_LIMIT_WINDOW
  THEN CleanupOldTimestamps_Inclusive(Tail(timestamps), t)
  ELSE timestamps

RECURSIVE CleanupOldTimestamps(_, _)
\* cleanup_old_timestamps at Instant t: the front is popped while it is
\* older than the window
CleanupOldTimestamps(timestamps, t) ==
  IF timestamps # <<>> /\ t - Head(timestamps) > RATE_LIMIT_WINDOW
  THEN CleanupOldTimestamps(Tail(timestamps), t)
  ELSE timestamps

\* what has_capacity returns once the timestamps are cleaned up
CapacityLeft(timestamps) == Len(timestamps) < RATE_LIMIT_MAX_UPDATES

\* has_capacity at Instant t: its result and the RateLimiter it leaves
HasCapacity(r, t) == CapacityLeft(CleanupOldTimestamps(r.timestamps, t))
AfterHasCapacity(r, t) ==
  [r EXCEPT !.timestamps = CleanupOldTimestamps(r.timestamps, t)]

(***************************************************************************)
(* The latency estimate (src/src/discord.rs:96-111).                       *)
(***************************************************************************)
\* mutant: no lower bound
Clamp_NoFloor(x, lo, hi) == IF x > hi THEN hi ELSE x

Clamp(x, lo, hi) == IF x < lo THEN lo ELSE IF x > hi THEN hi ELSE x

\* mutant: the weights of the sample and of the previous estimate exchanged
Averaged_Swapped(new_ms, old_ms) == (8 * new_ms + 2 * old_ms) \div 10

\* LATENCY_SMOOTHING * new_ms + (1.0 - LATENCY_SMOOTHING) * old_ms, cast to
\* u64: for whole milliseconds in the clamp range the f64 result truncates
\* to the same integer as (2 * new + 8 * old) / 10
Averaged(new_ms, old_ms) == (2 * new_ms + 8 * old_ms) \div 10

\* update_latency(request_duration): the new latency_estimate
UpdateLatency(latency_estimate, request_duration) ==
  LET raw_latency == request_duration \div 2
      clamped == Clamp(raw_latency, MIN_LATENCY_MS, MAX_LATENCY_MS)
  IN  IF latency_estimate = 0 THEN clamped
      ELSE Averaged(clamped, latency_estimate)

(***************************************************************************)
(* get_due_update, send_update, clear_status, reset                        *)
(* (src/src/discord.rs:186-249).                                           *)
(***************************************************************************)
\* mutant: the latency estimate is not added to the position
IsDue_NoLatency(r, current_position) ==
  /\ r.schedule # <<>>
  /\ current_position >= Head(r.schedule).display_time

\* mutant: the front is due only at the very millisecond of its display_time
IsDue_ExactTime(r, current_position) ==
  /\ r.schedule # <<>>
  /\ current_position + r.latency_estimate = Head(r.schedule).display_time

\* send_threshold >= next.display_time for the front of a non-empty schedule
IsDue(r, current_position) ==
  /\ r.schedule # <<>>
  /\ current_position + r.latency_estimate >= Head(r.schedule).display_time

\* what get_due_update returns
DueText(r, current_position) ==
  IF IsDue(r, current_position) THEN Some(Head(r.schedule).text) ELSE NoneVal

\* mutant: the front entry is read but left in the queue
AfterGetDueUpdate_Peek(r, current_position) == r

\* the RateLimiter get_due_update leaves
AfterGetDueUpdate(r, current_position) ==
  IF IsDue(r, current_position) THEN [r EXCEPT !.schedule = Tail(@)] ELSE r

\* mutant: no text is taken for the one sent last
SameAsLastSent_Never(r, text) == FALSE

\* send_update: "skip if same as last sent"
SameAsLastSent(r, text) == r.last_sent = Some(text)

\* mutant: the text is not compared with last_sent
SendUpdateCalls_NoDedupe(r, text, t) == HasCapacity(r, t)

\* send_update reaches send_status at Instant t
SendUpdateCalls(r, text, t) == ~SameAsLastSent(r, text) /\ HasCapacity(r, t)

\* the RateLimiter send_update leaves before send_status is awaited, or when
\* it returns Ok(false)
SendUpdateBefore(r, text, t) ==
  IF SameAsLastSent(r, text) THEN r ELSE AfterHasCapacity(r, t)

\* the RateLimiter send_update leaves after send_status returned
\* Ok(request_duration) at Instant t
SendUpdateAfter(r, text, request_duration, t) ==
  [r EXCEPT !.latency_estimate = UpdateLatency(@, request_duration),
            !.timestamps = Append(@, t),
            !.last_sent = Some(text)]

\* the RateLimiter clear_status leaves before send_status is awaited, or
\* when it returns early
ClearStatusBefore(r, t) ==
  AfterHasCapacity([r EXCEPT !.schedule = <<>>, !.last_sent = NoneVal], t)

\* clear_status reaches send_status at Instant t
ClearStatusCalls(r, t) == HasCapacity(r, t)

\* the RateLimiter clear_status leaves after send_status returned
\* Ok(request_duration) at Instant t
ClearStatusAfter(r, request_duration, t) ==
  [r EXCEPT !.latency_estimate = UpdateLatency(@, request_duration),
            !.timestamps = Append(@, t)]

\* reset
Reset(r) == [r EXCEPT !.schedule = <<>>, !.last_sent = NoneVal]

(***************************************************************************)
(* State.                                                                  *)
(***************************************************************************)
VARIABLES
  rl,          \* the RateLimiter: timestamps, schedule, latency_estimate, last_sent
  now,         \* Instant::now(), in ms since the start
  issued,      \* history: the Instants at which send_status was entered
  ret,         \* the last method the RateLimiter's client called, and its result
  state,       \* the shared PlaybackState: Option<CurrentPlayback>
  steps,       \* step_loop ticks since sync_once last wrote the snapshot
  resync,      \* resync_loop's locals: last_track_id
  status,      \* status_loop's locals: pc, last_track_id, schedule_built
  pending,     \* the send_status call status_loop is awaiting, if any
  last_poll,   \* history: what the latest poll of status_loop did
  in_lines,    \* build_schedule's argument lines (scheduler specification)
  in_pos,      \* build_schedule's argument current_position
  phase,       \* "input" before the call under study, "built" after it
  lock         \* the RwLock of the PlaybackState: who holds a guard

vars == <<rl, now, issued, ret, state, steps, resync, status, pending,
          last_poll, in_lines, in_pos, phase, lock>>

\* the variables of the three tasks of the program
progVars == <<state, steps, resync, status, pending, last_poll>>

\* RateLimiter::new (src/src/discord.rs:62-70)
RateLimiterNew ==
  [timestamps |-> <<>>, schedule |-> <<>>, latency_estimate |-> 0,
   last_sent |-> NoneVal]

(***************************************************************************)
(* Scheduler specification: build_schedule applied to every bounded input. *)
(***************************************************************************)
Letters == <<"A", "B", "C", "D", "E", "F", "G", "H">>
StartTimes == {0, 1000, 1100, 3334, 4434, 6668, 10002}
LineLengths == {1000}
InputPositions == {0, 1500, 2000}

\* the line lists of length n: the i-th line carries the i-th letter
LineLists(n) ==
  { [i \in 1..n |-> TimedLine(<<Letters[i]>>, f[i][1], f[i][1] + f[i][2])] :
      f \in [1..n -> StartTimes \X LineLengths] }

NoReturn == [op |-> "none", val |-> NoneVal]

\* status_loop's locals before its first poll (src/src/discord.rs:311-313)
StatusStart ==
  [pc |-> "poll", last_track_id |-> NoneVal, schedule_built |-> FALSE]

\* resync_loop's locals before its first cycle (src/src/spotify.rs:94)
\* pc is "loop" while resync_loop runs; failed tells whether the latest
\* sync_once returned Err, which resync_loop prints
ResyncStart == [last_track_id |-> NoneVal, pc |-> "loop", failed |-> FALSE]

\* what a poll did: whether it saw a new track id, whether it called
\* build_schedule, what get_due_update returned to it, and how it ended:
\* "idle" (nothing to send), "same_as_last" and "denied" (send_update returned
\* Ok(false): text equal to last_sent, no capacity), "update" (send_update
\* reached send_status), "clear" (clear_status reached send_status),
\* "clear_skipped" (clear_status returned early); builds counts the calls of
\* build_schedule, and dropped holds the texts the gate denied, since the
\* latest poll that saw a new track id or no playback; offered is the text
\* handed to send_update; popped_all holds the updates get_due_update has
\* returned since the latest poll that saw a new track id or no playback,
\* and rewound tells that the poll read a position at which one that an
\* earlier poll was given is not due
PollRecord(changed, built, popped, outcome, builds, offered, dropped, popped_all, rewound) ==
  [changed |-> changed, built |-> built, popped |-> popped, outcome |-> outcome,
   builds |-> builds, offered |-> offered, dropped |-> dropped,
   popped_all |-> popped_all, rewound |-> rewound]
NoPoll == PollRecord(FALSE, FALSE, NoneVal, "none", 0, NoneVal, {}, {}, FALSE)

\* the RwLock with no guard out
LockFree == [readers |-> {}, writer |-> NoneVal]

\* the three tasks as they are spawned, the snapshot still None
ProgStart ==
  /\ state = NoneVal
  /\ steps = 0
  /\ resync = ResyncStart
  /\ status = StatusStart
  /\ pending = NoneVal
  /\ last_poll = NoPoll
  /\ lock = LockFree

SchedInit ==
  /\ rl = RateLimiterNew
  /\ now = 0
  /\ issued = <<>>
  /\ ret = NoReturn
  /\ ProgStart
  /\ in_lines \in UNION {LineLists(n) : n \in 0..MaxLines}
  /\ in_pos \in InputPositions
  /\ phase = "input"

\* the call rate_limiter.build_schedule(&in_lines, in_pos)
CallBuildSchedule ==
  /\ phase = "input"
  /\ rl' = [rl EXCEPT !.schedule = BuildSchedule(in_lines, in_pos)]
  /\ phase' = "built"
  /\ UNCHANGED <<now, issued, ret, progVars, in_lines, in_pos, lock>>

SchedNext == CallBuildSchedule

SpecSched == SchedInit /\ [][SchedNext]_vars

(***************************************************************************)
(* Rate limiter specification: a client that calls the public methods of   *)
(* one RateLimiter in any order, with any of the bounded arguments, while  *)
(* the status sink answers or fails after any of the bounded durations.    *)
(***************************************************************************)
\* the clock step between two calls of the client
IdleStep == RATE_LIMIT_WINDOW \div 2
\* how long send_status takes (start.elapsed())
RequestDurations == {240}

ClientLines ==
  << TimedLine(<<"A">>, 0, 1000), TimedLine(<<"C">>, 3350, 4000) >>
ClientLineLists == {ClientLines}
ClientPositions == {0, 3300, 3350}
ClientTexts == {<<"A">>, <<"C">>}

RLInit ==
  /\ rl = RateLimiterNew
  /\ now = 0
  /\ issued = <<>>
  /\ ret = NoReturn
  /\ ProgStart
  /\ in_lines = <<>>
  /\ in_pos = 0
  /\ phase = "client"

Returned(op, val) == [op |-> op, val |-> val]

\* time passes between two calls
RL_Advance ==
  /\ phase = "client"
  /\ now \div IdleStep < MaxIdleSteps
  /\ now' = now + IdleStep
  /\ UNCHANGED <<rl, issued, ret, progVars, in_lines, in_pos, phase, lock>>

\* build_schedule(lines, current_position)
RL_BuildSchedule ==
  /\ phase = "client"
  /\ \E lines \in ClientLineLists, current_position \in ClientPositions :
       /\ rl' = [rl EXCEPT !.schedule = BuildSchedule(lines, current_position)]
       /\ ret' = Returned("build_schedule", NoneVal)
  /\ UNCHANGED <<now, issued, progVars, in_lines, in_pos, phase, lock>>

\* get_due_update(current_position), for one argument
GetDueUpdateAt(current_position) ==
  /\ phase = "client"
  /\ rl' = AfterGetDueUpdate(rl, current_position)
  /\ ret' = Returned("get_due_update", DueText(rl, current_position))
  /\ UNCHANGED <<now, issued, progVars, in_lines, in_pos, phase, lock>>

\* get_due_update(current_position)
RL_GetDueUpdate ==
  \E current_position \in ClientPositions : GetDueUpdateAt(current_position)

\* send_update(text, ..) returning Ok(false): nothing is sent
SendUpdateSkippedWith(text) ==
  /\ phase = "client"
  /\ ~SendUpdateCalls(rl, text, now)
  /\ rl' = SendUpdateBefore(rl, text, now)
  /\ ret' = Returned("send_update", "Ok(false)")
  /\ UNCHANGED <<now, issued, progVars, in_lines, in_pos, phase, lock>>

RL_SendUpdateSkipped == \E text \in ClientTexts : SendUpdateSkippedWith(text)

\* send_update(text, ..) whose send_status returns Ok after request_duration
SendUpdateOkWith(text) ==
  /\ phase = "client"
  /\ Len(issued) < MaxCalls
  /\ \E request_duration \in RequestDurations :
       /\ SendUpdateCalls(rl, text, now)
       /\ now' = now + request_duration
       /\ rl' = SendUpdateAfter(SendUpdateBefore(rl, text, now), text,
                                request_duration, now')
       /\ ret' = Returned("send_update", "Ok(true)")
  /\ issued' = Append(issued, now)
  /\ UNCHANGED <<progVars, in_lines, in_pos, phase, lock>>

RL_SendUpdateOk == \E text \in ClientTexts : SendUpdateOkWith(text)

\* mutant: the send is recorded before the outcome of the call is known
SendUpdateErrWith_Recorded(text) ==
  /\ phase = "client"
  /\ Len(issued) < MaxCalls
  /\ \E request_duration \in RequestDurations :
       /\ SendUpdateCalls(rl, text, now)
       /\ now' = now + request_duration
       /\ rl' = SendUpdateAfter(SendUpdateBefore(rl, text, now), text,
                                request_duration, now')
       /\ ret' = Returned("send_update", "Err")
  /\ issued' = Append(issued, now)
  /\ UNCHANGED <<progVars, in_lines, in_pos, phase, lock>>

\* send_update(text, ..) whose send_status returns Err after request_duration
SendUpdateErrWith(text) ==
  /\ phase = "client"
  /\ Len(issued) < MaxCalls
  /\ \E request_duration \in RequestDurations :
       /\ SendUpdateCalls(rl, text, now)
       /\ now' = now + request_duration
       /\ rl' = SendUpdateBefore(rl, text, now)
       /\ ret' = Returned("send_update", "Err")
  /\ issued' = Append(issued, now)
  /\ UNCHANGED <<progVars, in_lines, in_pos, phase, lock>>

RL_SendUpdateErr == \E text \in ClientTexts : SendUpdateErrWith(text)

\* clear_status(..) returning early: no capacity
RL_ClearStatusSkipped ==
  /\ phase = "client"
  /\ ~ClearStatusCalls(rl, now)
  /\ rl' = ClearStatusBefore(rl, now)
  /\ ret' = Returned("clear_status", "Ok(())")
  /\ UNCHANGED <<now, issued, progVars, in_lines, in_pos, phase, lock>>

\* clear_status(..) whose send_status returns Ok after request_duration
RL_ClearStatusOk ==
  /\ phase = "client"
  /\ Len(issued) < MaxCalls
  /\ ClearStatusCalls(rl, now)
  /\ \E request_duration \in RequestDurations :
       /\ now' = now + request_duration
       /\ rl' = ClearStatusAfter(ClearStatusBefore(rl, now), request_duration, now')
  /\ ret' = Returned("clear_status", "Ok(())")
  /\ issued' = Append(issued, now)
  /\ UNCHANGED <<progVars, in_lines, in_pos, phase, lock>>

\* clear_status(..) whose send_status returns Err after request_duration
RL_ClearStatusErr ==
  /\ phase = "client"
  /\ Len(issued) < MaxCalls
  /\ ClearStatusCalls(rl, now)
  /\ \E request_duration \in RequestDurations :
       now' = now + request_duration
  /\ rl' = ClearStatusBefore(rl, now)
  /\ ret' = Returned("clear_status", "Err")
  /\ issued' = Append(issued, now)
  /\ UNCHANGED <<progVars, in_lines, in_pos, phase, lock>>

\* reset()
RL_Reset ==
  /\ phase = "client"
  /\ rl' = Reset(rl)
  /\ ret' = Returned("reset", NoneVal)
  /\ UNCHANGED <<now, issued, progVars, in_lines, in_pos, phase, lock>>

RLNext ==
  \/ RL_Advance
  \/ RL_BuildSchedule
  \/ RL_GetDueUpdate
  \/ RL_SendUpdateSkipped
  \/ RL_SendUpdateOk
  \/ RL_SendUpdateErr
  \/ RL_ClearStatusSkipped
  \/ RL_ClearStatusOk
  \/ RL_ClearStatusErr
  \/ RL_Reset

SpecRL == RLInit /\ [][RLNext]_vars

(***************************************************************************)
(* Lookup specification: get_text_at applied to every bounded lyrics and   *)
(* timestamp.                                                              *)
(***************************************************************************)
TextStartTimes == {0, 1000, 2000}
TextLineLengths == {0, 500, 1500}
Timestamps == {0, 250, 500, 750, 1000, 1250, 1750, 4000}

\* the i-th line of line-synced lyrics
LineLyricsLine(i, s, e) == [text |-> <<Letters[i]>>, start_time |-> s, end_time |-> e]

\* a SyllableLyricsSyllable (src/src/lyrics.rs:62-76)
Syllable(txt, part, s, e) ==
  [text |-> txt, is_part_of_word |-> part, start_time |-> s, end_time |-> e]

\* the i-th line of syllable-synced lyrics: two syllables of one word and a
\* third one, each with its own times
SyllableLyricsLine(i, s, e) ==
  [lead |-> [syllables |-> << Syllable(<<Letters[i]>>, FALSE, s + 1, s + 2),
                              Syllable(<<"y">>, TRUE, s + 2, s + 3),
                              Syllable(<<"z">>, FALSE, s + 3, s + 4) >>,
             start_time |-> s, end_time |-> e]]

\* the lyrics of n lines, of either kind
LyricsOfLength(n) ==
  { [tag |-> "Line",
     content |-> [i \in 1..n |-> LineLyricsLine(i, f[i][1], f[i][1] + f[i][2])]] :
      f \in [1..n -> TextStartTimes \X TextLineLengths] }
  \cup
  { [tag |-> "Syllable",
     content |-> [i \in 1..n |-> SyllableLyricsLine(i, f[i][1], f[i][1] + f[i][2])]] :
      f \in [1..n -> TextStartTimes \X TextLineLengths] }

TextInit ==
  /\ rl = RateLimiterNew
  /\ now = 0
  /\ issued = <<>>
  /\ ret = NoReturn
  /\ ProgStart
  /\ in_lines \in UNION {LyricsOfLength(n) : n \in 0..MaxTextLines}
  /\ in_pos \in Timestamps
  /\ phase = "lookup"

\* the call in_lines.get_text_at(in_pos)
CallGetTextAt ==
  /\ phase = "lookup"
  /\ ret' = Returned("get_text_at", GetTextAt(in_lines, in_pos))
  /\ phase' = "found"
  /\ UNCHANGED <<rl, now, issued, progVars, in_lines, in_pos, lock>>

TextNext == CallGetTextAt

SpecText == TextInit /\ [][TextNext]_vars

(***************************************************************************)
(* Timed-lines specification: get_timed_lines applied to every bounded     *)
(* lyrics, whatever the order of its lines.                                *)
(***************************************************************************)
TimedInit ==
  /\ rl = RateLimiterNew
  /\ now = 0
  /\ issued = <<>>
  /\ ret = NoReturn
  /\ ProgStart
  /\ in_lines \in UNION {LyricsOfLength(n) : n \in 0..MaxTextLines}
  /\ in_pos = 0
  /\ phase = "lyrics"

\* the call in_lines.get_timed_lines()
CallGetTimedLines ==
  /\ phase = "lyrics"
  /\ ret' = Returned("get_timed_lines", GetTimedLines(in_lines))
  /\ phase' = "timed"
  /\ UNCHANGED <<rl, now, issued, progVars, in_lines, in_pos, lock>>

TimedNext == CallGetTimedLines

SpecTimed == TimedInit /\ [][TimedNext]_vars

(***************************************************************************)
(* Window specification: a client that calls send_update, each call         *)
(* completing, with the clock moving in steps of one second between calls, *)
(* for longer than the rate window.                                        *)
(***************************************************************************)
\* the clock step between two calls
WindowStep == RATE_LIMIT_WINDOW \div 10

\* time passes between two calls
Win_Advance ==
  /\ phase = "client"
  /\ now \div WindowStep < MaxWindowSteps
  /\ now' = now + WindowStep
  /\ UNCHANGED <<rl, issued, ret, progVars, in_lines, in_pos, phase, lock>>

WinNext ==
  \/ Win_Advance
  \/ RL_SendUpdateSkipped
  \/ RL_SendUpdateOk

SpecWin == RLInit /\ [][WinNext]_vars

(***************************************************************************)
(* Latency specification: a client whose outbound calls all complete, after *)
(* any of the bounded round-trip times, so that update_latency sees every  *)
(* sequence of samples.                                                    *)
(***************************************************************************)
\* the round-trip times send_status reports: below, at and above the clamp
SampleDurations == {0, 19, 20, 40, 41, 240, 4000, 4002}

LatInit ==
  /\ rl = RateLimiterNew
  /\ now = 0
  /\ issued = <<>>
  /\ ret = NoReturn
  /\ ProgStart
  /\ in_lines = <<>>
  /\ in_pos = 0
  /\ phase = "latency"

\* send_update(text, ..) whose send_status returns Ok(request_duration)
Lat_SendUpdateOk ==
  /\ phase = "latency"
  /\ Len(issued) < MaxSamples
  /\ \E text \in ClientTexts, request_duration \in SampleDurations :
       /\ SendUpdateCalls(rl, text, now)
       /\ now' = now + request_duration
       /\ rl' = SendUpdateAfter(SendUpdateBefore(rl, text, now), text,
                                request_duration, now')
       /\ ret' = Returned("send_update", "Ok(true)")
  /\ issued' = Append(issued, now)
  /\ UNCHANGED <<progVars, in_lines, in_pos, phase, lock>>

\* clear_status(..) whose send_status returns Ok(request_duration)
Lat_ClearStatusOk ==
  /\ phase = "latency"
  /\ Len(issued) < MaxSamples
  /\ ClearStatusCalls(rl, now)
  /\ \E request_duration \in SampleDurations :
       /\ now' = now + request_duration
       /\ rl' = ClearStatusAfter(ClearStatusBefore(rl, now), request_duration, now')
  /\ ret' = Returned("clear_status", "Ok(())")
  /\ issued' = Append(issued, now)
  /\ UNCHANGED <<progVars, in_lines, in_pos, phase, lock>>

\* time passes between two calls, until the window has moved past the
\* recorded sends
Lat_Advance ==
  /\ phase = "latency"
  /\ rl.timestamps # <<>>
  /\ now - Head(rl.timestamps) <= RATE_LIMIT_WINDOW
  /\ now' = now + IdleStep
  /\ UNCHANGED <<rl, issued, ret, progVars, in_lines, in_pos, phase, lock>>

LatNext ==
  \/ Lat_SendUpdateOk
  \/ Lat_ClearStatusOk
  \/ Lat_Advance

SpecLat == LatInit /\ [][LatNext]_vars

(***************************************************************************)
(* Program specification: status_loop (src/src/discord.rs:310-369),        *)
(* step_loop and resync_loop (src/src/spotify.rs:76-171) running           *)
(* concurrently over the shared snapshot.  The playback source, the lyrics *)
(* source and the status sink answer with any of the bounded outcomes.     *)
(***************************************************************************)
\* the tracks the playback source reports: two Spotify tracks and a local
\* file, which has no id
Track1 == [id |-> Some("t1"), name |-> <<"S">>, artists |-> << <<"P">>, <<"Q">> >>]
Track2 == [id |-> Some("t2"), name |-> <<"T">>, artists |-> << <<"P">> >>]
LocalTrack == [id |-> NoneVal, name |-> <<"L">>, artists |-> <<>>]
Tracks == {Track1, Track2, LocalTrack}

\* what the lyrics source holds for each track id
Lyrics1 ==
  [tag |-> "Line",
   content |-> << [text |-> <<"A">>, start_time |-> 0, end_time |-> 1000],
                  [text |-> <<"C">>, start_time |-> 3350, end_time |-> 4000] >>]
Lyrics2 ==
  [tag |-> "Syllable",
   content |-> << [lead |-> [syllables |->
                     << [text |-> <<"X">>, is_part_of_word |-> FALSE],
                        [text |-> <<"y">>, is_part_of_word |-> TRUE],
                        [text |-> <<"Z">>, is_part_of_word |-> FALSE] >>,
                     start_time |-> 0, end_time |-> 1000]] >>]
LyricsOf(id) == IF id = Some("t1") THEN Lyrics1 ELSE Lyrics2

\* the progress values the playback source reports
PolledPositions == {0, 3300}

\* a CurrentPlayback (src/src/spotify.rs:24-32)
CurrentPlayback(track, lyrics, position) ==
  [track |-> track, lyrics |-> lyrics, position |-> position]

ProgInit ==
  /\ rl = RateLimiterNew
  /\ now = 0
  /\ issued = <<>>
  /\ ret = NoReturn
  /\ ProgStart
  /\ in_lines = <<>>
  /\ in_pos = 0
  /\ phase = "program"

\* the process runs until status_loop returns: the error of a task joined by
\* try_join! ends main, and the runtime with it
ProcessRunning ==
  /\ phase = "program"
  /\ status.pc # "returned"
  /\ resync.pc # "returned"

\* ---- step_loop ----
\* one iteration: the position advances by STEP_INTERVAL while a snapshot is
\* present
AdvancePosition ==
  /\ ProcessRunning
  /\ steps' = steps + 1
  /\ state' = IF state # NoneVal
              THEN Some([Unwrap(state) EXCEPT !.position = @ + STEP_INTERVAL])
              ELSE state
  /\ UNCHANGED <<rl, now, issued, ret, resync, status, pending, last_poll,
                 in_lines, in_pos, phase, lock>>

\* a tick of step_loop, at most MaxSteps of them between two writes of
\* sync_once
StepTick ==
  /\ steps < MaxSteps
  /\ AdvancePosition

\* ---- resync_loop / sync_once ----
\* mutant: the error of sync_once is propagated with `?`
SyncError_Propagated ==
  /\ ProcessRunning
  /\ resync' = [resync EXCEPT !.pc = "returned", !.failed = TRUE]
  /\ UNCHANGED <<rl, now, issued, ret, state, steps, status, pending,
                 last_poll, in_lines, in_pos, phase, lock>>

\* a cycle whose playback poll fails: sync_once returns Err, resync_loop
\* logs it and sleeps
SyncError ==
  /\ ProcessRunning
  /\ resync' = [resync EXCEPT !.failed = TRUE]
  /\ UNCHANGED <<rl, now, issued, ret, state, steps, status, pending,
                 last_poll, in_lines, in_pos, phase, lock>>

\* a cycle that finds nothing playing, playback paused, no item, or an item
\* that is no track
SyncNothing ==
  /\ ProcessRunning
  /\ resync' = [resync EXCEPT !.last_track_id = NoneVal, !.failed = FALSE]
  /\ state' = NoneVal
  /\ steps' = 0
  /\ UNCHANGED <<rl, now, issued, ret, status, pending, last_poll,
                 in_lines, in_pos, phase, lock>>

\* mutant: a failed fetch yields lyrics without lines
FetchResult_EmptyLyrics(track, fetch_ok) ==
  IF track.id = NoneVal THEN NoneVal
  ELSE IF fetch_ok THEN Some(LyricsOf(track.id))
  ELSE Some([tag |-> "Line", content |-> <<>>])

\* fetch_lyrics(..).ok() for a track with an id, None for one without
FetchResult(track, fetch_ok) ==
  IF track.id # NoneVal /\ fetch_ok THEN Some(LyricsOf(track.id)) ELSE NoneVal

\* a cycle that finds track playing at position; fetch_ok is whether the
\* lyrics fetch and parse succeed, should they be attempted
SyncTrackWith(track, position, fetch_ok) ==
  /\ ProcessRunning
  /\ IF track.id # resync.last_track_id
     THEN /\ resync' = [resync EXCEPT !.last_track_id = track.id,
                                      !.failed = FALSE]
          /\ state' = Some(CurrentPlayback(track, FetchResult(track, fetch_ok),
                                           position))
     ELSE /\ resync' = [resync EXCEPT !.failed = FALSE]
          /\ state' = IF state # NoneVal
                      THEN Some([Unwrap(state) EXCEPT !.position = position])
                      ELSE state
  /\ steps' = 0
  /\ UNCHANGED <<rl, now, issued, ret, status, pending, last_poll,
                 in_lines, in_pos, phase, lock>>

SyncTrack ==
  \E track \in Tracks, position \in PolledPositions, fetch_ok \in BOOLEAN :
    SyncTrackWith(track, position, fetch_ok)

\* ---- status_loop ----
\* "{name} - {artists joined by ', '}"
TrackInfoText(track) ==
  track.name \o <<" ", "-", " ">> \o Join(track.artists, <<",", " ">>)

\* a send_status call in flight
PendingCall(kind, text, start) == [kind |-> kind, text |-> text, start |-> start]

\* mutant: a change of track id is not acted upon
AfterTrackCheck_Ignored(r, st, playback) ==
  [r |-> r, built |-> st.schedule_built]

\* mutant: every poll is taken for a change of track
AfterTrackCheck_EveryPoll(r, st, playback) ==
  [r |-> Reset(r), built |-> FALSE]

\* the track-change check of a poll: the RateLimiter and schedule_built it
\* leaves
AfterTrackCheck(r, st, playback) ==
  IF playback.track.id # st.last_track_id
  THEN [r |-> Reset(r), built |-> FALSE]
  ELSE [r |-> r, built |-> st.schedule_built]

\* mutant: the schedule is rebuilt on every poll
AfterBuildCheck_Always(c, playback) ==
  [c.r EXCEPT !.schedule =
     BuildSchedule(GetTimedLines(Unwrap(playback.lyrics)), playback.position)]

\* mutant: the schedule is built again once it has run empty
AfterBuildCheck_WhenEmpty(c, playback) ==
  IF ~c.built \/ c.r.schedule = <<>>
  THEN [c.r EXCEPT !.schedule =
          BuildSchedule(GetTimedLines(Unwrap(playback.lyrics)), playback.position)]
  ELSE c.r

\* "build schedule if not done yet"
AfterBuildCheck(c, playback) ==
  IF ~c.built
  THEN [c.r EXCEPT !.schedule =
          BuildSchedule(GetTimedLines(Unwrap(playback.lyrics)), playback.position)]
  ELSE c.r

\* the text a poll hands to send_update, if any, for the playback it read
PollText(c, playback) ==
  IF playback.lyrics # NoneVal
  THEN DueText(AfterBuildCheck(c, playback), playback.position)
  ELSE Some(TrackInfoText(playback.track))

\* the RateLimiter a poll leaves before send_update is entered
PollLimiter(c, playback) ==
  IF playback.lyrics # NoneVal
  THEN AfterGetDueUpdate(AfterBuildCheck(c, playback), playback.position)
  ELSE c.r

\* a poll that reads Some(playback), up to the await of send_status or, if
\* nothing is sent, to the sleep
StatusPollPlayingWithin(max_calls) ==
  /\ ProcessRunning
  /\ status.pc = "poll"
  /\ state # NoneVal
  /\ \E playback \in {Unwrap(state)} :
     \E c \in {AfterTrackCheck(rl, status, playback)} :
     \E text \in {PollText(c, playback)}, r \in {PollLimiter(c, playback)} :
     LET built == IF playback.lyrics # NoneVal THEN TRUE ELSE c.built
         calls == text # NoneVal /\ SendUpdateCalls(r, Unwrap(text), now)
     IN  /\ calls => Len(issued) < max_calls
         /\ rl' = IF text # NoneVal THEN SendUpdateBefore(r, Unwrap(text), now)
                  ELSE r
         /\ status' = [pc |-> IF calls THEN "awaiting" ELSE "poll",
                       last_track_id |-> playback.track.id,
                       schedule_built |-> built]
         /\ pending' = IF calls THEN Some(PendingCall("update", Unwrap(text), now))
                       ELSE NoneVal
         /\ issued' = IF calls THEN Append(issued, now) ELSE issued
         /\ last_poll' =
              LET changed == playback.track.id # status.last_track_id
                  denied == /\ text # NoneVal
                            /\ ~SameAsLastSent(r, Unwrap(text))
                            /\ ~HasCapacity(r, now)
              IN  PollRecord(changed,
                             playback.lyrics # NoneVal /\ ~c.built,
                             IF playback.lyrics # NoneVal THEN text ELSE NoneVal,
                             IF calls THEN "update"
                             ELSE IF denied THEN "denied"
                             ELSE IF text # NoneVal THEN "same_as_last"
                             ELSE "idle",
                             (IF changed THEN 0 ELSE last_poll.builds)
                             + (IF playback.lyrics # NoneVal /\ ~c.built
                                THEN 1 ELSE 0),
                             text,
                             (IF changed THEN {} ELSE last_poll.dropped)
                             \cup (IF denied THEN {Unwrap(text)} ELSE {}),
                             (IF changed THEN {} ELSE last_poll.popped_all)
                             \cup (IF playback.lyrics # NoneVal /\ text # NoneVal
                                   THEN {Head(AfterBuildCheck(c, playback).schedule)}
                                   ELSE {}),
                             /\ ~changed
                             /\ \E u \in last_poll.popped_all :
                                  u.display_time
                                    > playback.position + rl.latency_estimate)
  /\ UNCHANGED <<now, ret, state, steps, resync, in_lines, in_pos, phase, lock>>

\* a poll that reads None, up to the await of send_status inside
\* clear_status or, if nothing is sent, to the sleep
StatusPollStoppedWithin(max_calls) ==
  /\ ProcessRunning
  /\ status.pc = "poll"
  /\ state = NoneVal
  /\ IF status.last_track_id # NoneVal
     THEN LET calls == ClearStatusCalls(rl, now) IN
          /\ calls => Len(issued) < max_calls
          /\ rl' = ClearStatusBefore(rl, now)
          /\ status' = IF calls THEN [status EXCEPT !.pc = "awaiting"]
                       ELSE [status EXCEPT !.last_track_id = NoneVal,
                                           !.schedule_built = FALSE]
          /\ pending' = IF calls THEN Some(PendingCall("clear", <<>>, now))
                        ELSE NoneVal
          /\ issued' = IF calls THEN Append(issued, now) ELSE issued
          /\ last_poll' = PollRecord(FALSE, FALSE, NoneVal,
                                     IF calls THEN "clear" ELSE "clear_skipped",
                                     0, NoneVal, {}, {}, FALSE)
     ELSE /\ last_poll' = PollRecord(FALSE, FALSE, NoneVal, "idle", 0,
                                     NoneVal, {}, {}, FALSE)
          /\ UNCHANGED <<rl, status, pending, issued>>
  /\ UNCHANGED <<now, ret, state, steps, resync, in_lines, in_pos, phase, lock>>

\* the polls of status_loop, with at most MaxProgCalls outbound calls in one
\* behaviour
StatusPollPlaying == StatusPollPlayingWithin(MaxProgCalls)
StatusPollStopped == StatusPollStoppedWithin(MaxProgCalls)

\* send_status returns Ok(request_duration): send_update or clear_status
\* completes and the poll goes to its sleep
StatusCallOk ==
  /\ ProcessRunning
  /\ status.pc = "awaiting"
  /\ \E request_duration \in RequestDurations :
       /\ now' = now + request_duration
       /\ LET call == Unwrap(pending) IN
          IF call.kind = "update"
          THEN /\ rl' = SendUpdateAfter(rl, call.text, request_duration, now')
               /\ status' = [status EXCEPT !.pc = "poll"]
          ELSE /\ rl' = ClearStatusAfter(rl, request_duration, now')
               /\ status' = [pc |-> "poll", last_track_id |-> NoneVal,
                             schedule_built |-> FALSE]
  /\ pending' = NoneVal
  /\ UNCHANGED <<issued, ret, state, steps, resync, last_poll,
                 in_lines, in_pos, phase, lock>>

\* send_status returns Err: the `?` after send_update or clear_status makes
\* status_loop return the error
StatusCallErr ==
  /\ ProcessRunning
  /\ status.pc = "awaiting"
  /\ \E request_duration \in RequestDurations :
       now' = now + request_duration
  /\ status' = [status EXCEPT !.pc = "returned"]
  /\ pending' = NoneVal
  /\ UNCHANGED <<rl, issued, ret, state, steps, resync, last_poll,
                 in_lines, in_pos, phase, lock>>

\* time passes while the tasks sleep
ProgAdvance ==
  /\ ProcessRunning
  /\ now \div IdleStep < MaxProgIdle
  /\ now' = now + IdleStep
  /\ UNCHANGED <<rl, issued, ret, progVars, in_lines, in_pos, phase, lock>>

Next ==
  \/ StepTick
  \/ SyncError
  \/ SyncNothing
  \/ SyncTrack
  \/ StatusPollPlaying
  \/ StatusPollStopped
  \/ StatusCallOk
  \/ StatusCallErr
  \/ ProgAdvance

Spec == ProgInit /\ [][Next]_vars

(***************************************************************************)
(* Fair program specification: the same three tasks, scheduled fairly.     *)
(* step_loop and status_loop are loops that sleep 50 ms and go on, the     *)
(* runtime resumes a task whose await has completed, and the clock moves   *)
(* on.  The playback source does not report a position behind the one the  *)
(* snapshot holds for the same track, and step_loop ticks up to            *)
(* MaxLivePosition.                                                        *)
(***************************************************************************)
\* a tick of step_loop, while the position is below max_position
LiveStepTickBelow(max_position) ==
  /\ state # NoneVal
  /\ Unwrap(state).position < max_position
  /\ AdvancePosition

\* a cycle of sync_once that finds Track1 playing, not behind the snapshot
LiveSyncTrack ==
  \E position \in PolledPositions, fetch_ok \in BOOLEAN :
    /\ (state # NoneVal /\ Track1.id = resync.last_track_id) =>
         position >= Unwrap(state).position
    /\ SyncTrackWith(Track1, position, fetch_ok)

\* a poll of status_loop
LivePollWithin(max_calls) ==
  \/ StatusPollPlayingWithin(max_calls)
  \/ StatusPollStoppedWithin(max_calls)

\* time passes while the tasks sleep: as long as the rate gate is full,
\* and MaxLiveIdle times besides
LiveAdvance ==
  /\ ProcessRunning
  /\ ~HasCapacity(rl, now) \/ now \div IdleStep < MaxLiveIdle
  /\ now' = now + IdleStep
  /\ UNCHANGED <<rl, issued, ret, progVars, in_lines, in_pos, phase, lock>>

LiveStepTick == LiveStepTickBelow(MaxLivePosition)
DrainPoll == LivePollWithin(MaxDrainCalls)

DrainNext ==
  \/ LiveStepTick
  \/ SyncNothing
  \/ LiveSyncTrack
  \/ DrainPoll
  \/ StatusCallOk
  \/ StatusCallErr

SpecDrain ==
  /\ ProgInit
  /\ [][DrainNext]_vars
  /\ WF_vars(LiveStepTick)
  /\ WF_vars(DrainPoll)
  /\ WF_vars(StatusCallOk)

(***************************************************************************)
(* The program playing tracks without lyrics: every playback poll succeeds *)
(* and every lyrics fetch fails.  Polls and outbound calls are scheduled   *)
(* fairly, the clock moves on, and one behaviour makes at most             *)
(* MaxLiveCalls outbound calls.                                            *)
(***************************************************************************)
\* a poll of status_loop
InfoPoll == LivePollWithin(MaxLiveCalls)

\* a cycle of sync_once that finds a track playing whose lyrics fetch, should
\* it be attempted, fails
InfoSyncTrack ==
  \E track \in Tracks, position \in PolledPositions :
    SyncTrackWith(track, position, FALSE)

InfoNext ==
  \/ StepTick
  \/ SyncNothing
  \/ InfoSyncTrack
  \/ InfoPoll
  \/ StatusCallOk
  \/ StatusCallErr
  \/ LiveAdvance

SpecInfo ==
  /\ ProgInit
  /\ [][InfoNext]_vars
  /\ WF_vars(InfoPoll)
  /\ WF_vars(StatusCallOk)
  /\ WF_vars(LiveAdvance)

(***************************************************************************)
(* Lock specification: the three tasks at the grain of their await points, *)
(* with the guards of the PlaybackState RwLock (state.read().await,        *)
(* state.write().await) and the HTTP calls in flight.  What status_loop    *)
(* does with its clone is left open: it issues an outbound call or none.   *)
(***************************************************************************)
\* status_loop's locals, with the clone it took of the snapshot; pc is
\* "poll" (before state.read()), "cloning" (read guard held), "act" (clone
\* taken, guard dropped), "awaiting" (send_status in flight) or "returned"
LockStatusStart ==
  [pc |-> "poll", last_track_id |-> NoneVal, schedule_built |-> FALSE,
   current_state |-> NoneVal]

\* resync_loop's and sync_once's locals; pc is "loop" (sleeping), "polling"
\* (current_playing in flight), "fetching" (fetch_lyrics in flight) or
\* "write_none", "write_track", "write_pos" (at state.write())
LockResyncStart ==
  [last_track_id |-> NoneVal, pc |-> "loop", failed |-> FALSE,
   track |-> NoneVal, position |-> 0, lyrics |-> NoneVal]

LockInit ==
  /\ rl = RateLimiterNew
  /\ now = 0
  /\ issued = <<>>
  /\ ret = NoReturn
  /\ state = NoneVal
  /\ steps = 0
  /\ resync = LockResyncStart
  /\ status = LockStatusStart
  /\ pending = NoneVal
  /\ last_poll = NoPoll
  /\ lock = LockFree
  /\ in_lines = <<>>
  /\ in_pos = 0
  /\ phase = "locks"

LockRunning ==
  /\ phase = "locks"
  /\ status.pc # "returned"

\* RwLock::read returns a guard when no writer holds the lock
CanRead == lock.writer = NoneVal
\* RwLock::write returns a guard when nobody holds the lock
CanWrite == lock.writer = NoneVal /\ lock.readers = {}

\* ---- step_loop ----
\* state.write().await returns the guard
Lk_StepAcquire ==
  /\ LockRunning
  /\ steps < MaxSteps
  /\ CanWrite
  /\ lock' = [lock EXCEPT !.writer = Some("step")]
  /\ UNCHANGED <<rl, now, issued, ret, state, steps, resync, status, pending,
                 last_poll, in_lines, in_pos, phase>>

\* mutant: the tick writes a fresh snapshot of the same track, without lyrics
Lk_StepWrite_Replaces ==
  /\ LockRunning
  /\ lock.writer = Some("step")
  /\ state' = IF state # NoneVal
              THEN Some(CurrentPlayback(Unwrap(state).track, NoneVal,
                                        Unwrap(state).position + STEP_INTERVAL))
              ELSE state
  /\ steps' = steps + 1
  /\ lock' = [lock EXCEPT !.writer = NoneVal]
  /\ UNCHANGED <<rl, now, issued, ret, resync, status, pending, last_poll,
                 in_lines, in_pos, phase>>

\* the position is advanced and the guard dropped at the end of the if let
Lk_StepWrite ==
  /\ LockRunning
  /\ lock.writer = Some("step")
  /\ state' = IF state # NoneVal
              THEN Some([Unwrap(state) EXCEPT !.position = @ + STEP_INTERVAL])
              ELSE state
  /\ steps' = steps + 1
  /\ lock' = [lock EXCEPT !.writer = NoneVal]
  /\ UNCHANGED <<rl, now, issued, ret, resync, status, pending, last_poll,
                 in_lines, in_pos, phase>>

\* ---- status_loop ----
\* state.read().await returns the guard
Lk_StatusAcquire ==
  /\ LockRunning
  /\ status.pc = "poll"
  /\ CanRead
  /\ lock' = [lock EXCEPT !.readers = @ \cup {"status"}]
  /\ status' = [status EXCEPT !.pc = "cloning"]
  /\ UNCHANGED <<rl, now, issued, ret, state, steps, resync, pending,
                 last_poll, in_lines, in_pos, phase>>

\* mutant: the guard is bound to a variable and lives on after the clone
Lk_StatusClone_KeepsGuard ==
  /\ LockRunning
  /\ status.pc = "cloning"
  /\ status' = [status EXCEPT !.pc = "act", !.current_state = state]
  /\ UNCHANGED <<rl, now, issued, ret, state, steps, resync, pending,
                 last_poll, in_lines, in_pos, phase, lock>>

\* .clone(), and the temporary guard is dropped at the end of the statement
Lk_StatusClone ==
  /\ LockRunning
  /\ status.pc = "cloning"
  /\ status' = [status EXCEPT !.pc = "act", !.current_state = state]
  /\ lock' = [lock EXCEPT !.readers = @ \ {"status"}]
  /\ UNCHANGED <<rl, now, issued, ret, state, steps, resync, pending,
                 last_poll, in_lines, in_pos, phase>>

\* the match on the clone, up to the await of send_status (calls) or to the
\* sleep
Lk_StatusAct ==
  /\ LockRunning
  /\ status.pc = "act"
  /\ \E calls \in BOOLEAN :
       IF status.current_state # NoneVal
       THEN status' = [status EXCEPT
                         !.pc = IF calls THEN "awaiting" ELSE "poll",
                         !.last_track_id = Unwrap(status.current_state).track.id]
       ELSE IF status.last_track_id # NoneVal
            THEN status' = IF calls THEN [status EXCEPT !.pc = "awaiting"]
                           ELSE [status EXCEPT !.pc = "poll",
                                               !.last_track_id = NoneVal]
            ELSE /\ ~calls
                 /\ status' = [status EXCEPT !.pc = "poll"]
  /\ UNCHANGED <<rl, now, issued, ret, state, steps, resync, pending,
                 last_poll, in_lines, in_pos, phase, lock>>

\* send_status returns Ok
Lk_StatusHttpOk ==
  /\ LockRunning
  /\ status.pc = "awaiting"
  /\ status' = [status EXCEPT
                  !.pc = "poll",
                  !.last_track_id = IF status.current_state = NoneVal
                                    THEN NoneVal ELSE @]
  /\ UNCHANGED <<rl, now, issued, ret, state, steps, resync, pending,
                 last_poll, in_lines, in_pos, phase, lock>>

\* send_status returns Err and status_loop returns it
Lk_StatusHttpErr ==
  /\ LockRunning
  /\ status.pc = "awaiting"
  /\ status' = [status EXCEPT !.pc = "returned"]
  /\ UNCHANGED <<rl, now, issued, ret, state, steps, resync, pending,
                 last_poll, in_lines, in_pos, phase, lock>>

\* ---- resync_loop / sync_once ----
\* spotify.current_playing(..) is sent
Lk_SyncPollStart ==
  /\ LockRunning
  /\ resync.pc = "loop"
  /\ resync' = [resync EXCEPT !.pc = "polling"]
  /\ UNCHANGED <<rl, now, issued, ret, state, steps, status, pending,
                 last_poll, in_lines, in_pos, phase, lock>>

\* the poll fails: sync_once returns Err, resync_loop prints it and sleeps
Lk_SyncPollErr ==
  /\ LockRunning
  /\ resync.pc = "polling"
  /\ resync' = [resync EXCEPT !.pc = "loop", !.failed = TRUE]
  /\ UNCHANGED <<rl, now, issued, ret, state, steps, status, pending,
                 last_poll, in_lines, in_pos, phase, lock>>

\* the poll finds nothing playing: last_track_id is cleared, then
\* state.write() is awaited
Lk_SyncPollNothing ==
  /\ LockRunning
  /\ resync.pc = "polling"
  /\ resync' = [resync EXCEPT !.pc = "write_none", !.last_track_id = NoneVal]
  /\ UNCHANGED <<rl, now, issued, ret, state, steps, status, pending,
                 last_poll, in_lines, in_pos, phase, lock>>

\* mutant: the lyrics of the same track are fetched again while the
\* snapshot holds none
Lk_SyncPollTrack_Refetch ==
  /\ LockRunning
  /\ resync.pc = "polling"
  /\ \E track \in Tracks, position \in PolledPositions :
       resync' =
         IF track.id # resync.last_track_id
              \/ (track.id # NoneVal /\ resync.lyrics = NoneVal)
         THEN [resync EXCEPT
                 !.pc = IF track.id # NoneVal THEN "fetching" ELSE "write_track",
                 !.last_track_id = track.id,
                 !.track = Some(track), !.position = position,
                 !.lyrics = NoneVal]
         ELSE [resync EXCEPT !.pc = "write_pos", !.position = position]
  /\ UNCHANGED <<rl, now, issued, ret, state, steps, status, pending,
                 last_poll, in_lines, in_pos, phase, lock>>

\* the poll finds track playing at position: a new track with an id has its
\* lyrics fetched, a new one without goes to the write, the same track has
\* its position written
Lk_SyncPollTrack ==
  /\ LockRunning
  /\ resync.pc = "polling"
  /\ \E track \in Tracks, position \in PolledPositions :
       resync' =
         IF track.id # resync.last_track_id
         THEN [resync EXCEPT
                 !.pc = IF track.id # NoneVal THEN "fetching" ELSE "write_track",
                 !.last_track_id = track.id,
                 !.track = Some(track), !.position = position,
                 !.lyrics = NoneVal]
         ELSE [resync EXCEPT !.pc = "write_pos", !.position = position]
  /\ UNCHANGED <<rl, now, issued, ret, state, steps, status, pending,
                 last_poll, in_lines, in_pos, phase, lock>>

\* fetch_lyrics(..).await.ok()
Lk_SyncFetchDone ==
  /\ LockRunning
  /\ resync.pc = "fetching"
  /\ \E fetch_ok \in BOOLEAN :
       resync' = [resync EXCEPT
                    !.pc = "write_track",
                    !.lyrics = FetchResult(Unwrap(resync.track), fetch_ok)]
  /\ UNCHANGED <<rl, now, issued, ret, state, steps, status, pending,
                 last_poll, in_lines, in_pos, phase, lock>>

\* state.write().await returns the guard
Lk_SyncAcquire ==
  /\ LockRunning
  /\ resync.pc \in {"write_none", "write_track", "write_pos"}
  /\ lock.writer # Some("resync")
  /\ CanWrite
  /\ lock' = [lock EXCEPT !.writer = Some("resync")]
  /\ UNCHANGED <<rl, now, issued, ret, state, steps, resync, status, pending,
                 last_poll, in_lines, in_pos, phase>>

\* the snapshot is written through the guard, the guard is dropped and
\* sync_once returns Ok
Lk_SyncWrite ==
  /\ LockRunning
  /\ resync.pc \in {"write_none", "write_track", "write_pos"}
  /\ lock.writer = Some("resync")
  /\ state' =
       IF resync.pc = "write_none" THEN NoneVal
       ELSE IF resync.pc = "write_track"
       THEN Some(CurrentPlayback(Unwrap(resync.track), resync.lyrics,
                                 resync.position))
       ELSE IF state # NoneVal
       THEN Some([Unwrap(state) EXCEPT !.position = resync.position])
       ELSE state
  /\ resync' = [resync EXCEPT !.pc = "loop", !.failed = FALSE]
  /\ steps' = 0
  /\ lock' = [lock EXCEPT !.writer = NoneVal]
  /\ UNCHANGED <<rl, now, issued, ret, status, pending, last_poll,
                 in_lines, in_pos, phase>>

LockNext ==
  \/ Lk_StepAcquire
  \/ Lk_StepWrite
  \/ Lk_StatusAcquire
  \/ Lk_StatusClone
  \/ Lk_StatusAct
  \/ Lk_StatusHttpOk
  \/ Lk_StatusHttpErr
  \/ Lk_SyncPollStart
  \/ Lk_SyncPollErr
  \/ Lk_SyncPollNothing
  \/ Lk_SyncPollTrack
  \/ Lk_SyncFetchDone
  \/ Lk_SyncAcquire
  \/ Lk_SyncWrite

SpecLock == LockInit /\ [][LockNext]_vars

(***************************************************************************)
(* Properties of build_schedule, checked under SpecSched.                  *)
(***************************************************************************)
Built == phase = "built"

\* the indices of the input lines that have not ended at in_pos
UpcomingIdx == {i \in 1..Len(in_lines) : in_lines[i].end_time > in_pos}

\* the input line carrying the text txt (texts are distinct in SpecSched)
LineOfText(txt) == CHOOSE i \in 1..Len(in_lines) : in_lines[i].text = txt

\* the line texts an update shows, in the order they appear in its text
Pieces(update) == Split(update.text, BATCH_SEPARATOR)

RECURSIVE AllPieces(_)
\* the line texts of a whole schedule, front to back
AllPieces(schedule) ==
  IF schedule = <<>> THEN <<>>
  ELSE Pieces(Head(schedule)) \o AllPieces(Tail(schedule))

\* the updates of the schedule whose text shows txt
UpdatesShowing(txt) ==
  {k \in 1..Len(rl.schedule) :
     \E j \in 1..Len(Pieces(rl.schedule[k])) : Pieces(rl.schedule[k])[j] = txt}

\* C2: consecutive scheduled updates are at least MIN_UPDATE_INTERVAL apart,
\* so no 10-second window of song time holds more than 3 of them.
C2_MinSpacing ==
  Built =>
    /\ \A k \in 1..(Len(rl.schedule) - 1) :
         rl.schedule[k + 1].display_time - rl.schedule[k].display_time
           >= MIN_UPDATE_INTERVAL
    /\ \A k \in 1..Len(rl.schedule) :
         Cardinality({j \in 1..Len(rl.schedule) :
            /\ rl.schedule[k].display_time <= rl.schedule[j].display_time
            /\ rl.schedule[j].display_time
                 <= rl.schedule[k].display_time + RATE_LIMIT_WINDOW})
           <= RATE_LIMIT_MAX_UPDATES

\* a schedule of four updates: more than one 10-second window
C2_Witness == Built /\ Len(rl.schedule) >= 4

\* C3: every upcoming line is shown by exactly one update, once, and that
\* update is displayed no later than the line starts; finished lines are
\* shown nowhere; no upcoming line gives the empty schedule.
C3_ExactlyUpcoming ==
  Built =>
    /\ \A i \in UpcomingIdx :
         /\ Cardinality(UpdatesShowing(in_lines[i].text)) = 1
         /\ \A k \in UpdatesShowing(in_lines[i].text) :
              /\ rl.schedule[k].display_time <= in_lines[i].start_time
              /\ Cardinality({j \in 1..Len(Pieces(rl.schedule[k])) :
                    Pieces(rl.schedule[k])[j] = in_lines[i].text}) = 1
    /\ \A i \in (1..Len(in_lines)) \ UpcomingIdx :
         UpdatesShowing(in_lines[i].text) = {}
    /\ Len(AllPieces(rl.schedule)) = Cardinality(UpcomingIdx)
    /\ (UpcomingIdx = {} => rl.schedule = <<>>)

\* a build that dropped a finished line and merged upcoming ones
C3_Witness ==
  /\ Built
  /\ UpcomingIdx # {}
  /\ UpcomingIdx # 1..Len(in_lines)
  /\ \E k \in 1..Len(rl.schedule) : Len(Pieces(rl.schedule[k])) >= 2

ExampleLines ==
  << TimedLine(<<"A">>, 0, 1000), TimedLine(<<"B">>, 1000, 2000),
     TimedLine(<<"C">>, 1100, 2100) >>

\* C4: lines A[0,1000], B[1000,2000], C[1100,2100] at position 0 give the
\* single update {display_time: 0, text: "A. B. C"}.
C4_Example ==
  (Built /\ in_lines = ExampleLines /\ in_pos = 0) =>
    rl.schedule =
      << ScheduledUpdate(0, <<"A", ".", " ", "B", ".", " ", "C">>) >>

C4_Witness == Built /\ in_lines = ExampleLines /\ in_pos = 0

\* non-overlapping lines whose consecutive starts are more than
\* MIN_UPDATE_INTERVAL apart
NoPressure ==
  \A i \in 1..(Len(in_lines) - 1) :
    /\ in_lines[i].end_time <= in_lines[i + 1].start_time
    /\ in_lines[i + 1].start_time - in_lines[i].start_time > MIN_UPDATE_INTERVAL

\* C5 as stated: without scheduling pressure the schedule has one update per
\* input line, with the line's text and start.
C5_OnePerInputLine ==
  (Built /\ NoPressure) =>
    /\ Len(rl.schedule) = Len(in_lines)
    /\ \A i \in 1..Len(in_lines) :
         i <= Len(rl.schedule) =>
           rl.schedule[i] =
             ScheduledUpdate(in_lines[i].start_time, in_lines[i].text)

\* C5 amended: without scheduling pressure the schedule has one update per
\* input line that has not ended at current_position, in order, with the
\* line's text and start.
C5_OnePerUpcomingLine ==
  (Built /\ NoPressure) =>
    LET dropped == Len(in_lines) - Cardinality(UpcomingIdx) IN
    /\ Len(rl.schedule) = Cardinality(UpcomingIdx)
    /\ UpcomingIdx = (dropped + 1)..Len(in_lines)
    /\ \A k \in 1..Len(rl.schedule) :
         rl.schedule[k] =
           ScheduledUpdate(in_lines[dropped + k].start_time,
                           in_lines[dropped + k].text)

\* three pressure-free lines, the first of them already finished
C5_Witness ==
  /\ Built /\ NoPressure
  /\ Len(in_lines) >= 3
  /\ Cardinality(UpcomingIdx) = Len(in_lines) - 1

\* C6: texts are joined with ". " and the line texts appear, within each
\* update and across the queue, in ascending start_time order, input order
\* among equal start times.
C6_ChronologicalText ==
  Built =>
    /\ \A k \in 1..Len(rl.schedule) :
         rl.schedule[k].text = Join(Pieces(rl.schedule[k]), BATCH_SEPARATOR)
    /\ LET all == AllPieces(rl.schedule) IN
       \A a \in 1..(Len(all) - 1) :
         LET i == LineOfText(all[a])
             j == LineOfText(all[a + 1])
         IN  \/ in_lines[i].start_time < in_lines[j].start_time
             \/ /\ in_lines[i].start_time = in_lines[j].start_time
                /\ i < j

\* an update merging three lines, two of which start together, from an
\* input that is not sorted
C6_Witness ==
  /\ Built
  /\ \E k \in 1..Len(rl.schedule) : Len(Pieces(rl.schedule[k])) >= 3
  /\ \E i, j \in UpcomingIdx :
       i < j /\ in_lines[i].start_time = in_lines[j].start_time
  /\ \E i, j \in UpcomingIdx :
       i < j /\ in_lines[i].start_time > in_lines[j].start_time

(***************************************************************************)
(* Properties of the RateLimiter, checked under SpecRL.                    *)
(***************************************************************************)
\* the calls entered in the 10 seconds up to and including Instant t
IssuedInWindow(t) ==
  {j \in 1..Len(issued) : issued[j] <= t /\ t - issued[j] < RATE_LIMIT_WINDOW}

\* C1: in any trailing 10-second interval at most 3 outbound calls are
\* issued through send_update and clear_status together, and the timestamps
\* never hold more than 3 entries.
C1_AtMostThreeCalls ==
  /\ Len(rl.timestamps) <= RATE_LIMIT_MAX_UPDATES
  /\ \A i \in 1..Len(issued) :
       Cardinality(IssuedInWindow(issued[i])) <= RATE_LIMIT_MAX_UPDATES

\* C7: get_due_update(position) pops and returns the front entry exactly
\* when the schedule is non-empty and front.display_time <= position +
\* latency_estimate; it removes at most one entry, and otherwise returns None
\* and leaves the schedule as it is.  Nothing else of the RateLimiter changes.
C7_GetDueUpdate ==
  [][\A position \in ClientPositions :
       GetDueUpdateAt(position) =>
         LET due == /\ Len(rl.schedule) > 0
                    /\ rl.schedule[1].display_time
                         <= position + rl.latency_estimate
         IN  /\ due => /\ ret'.val = Some(rl.schedule[1].text)
                       /\ rl'.schedule = Tail(rl.schedule)
             /\ ~due => /\ ret'.val = NoneVal
                        /\ rl'.schedule = rl.schedule
             /\ Len(rl'.schedule) >= Len(rl.schedule) - 1
             /\ rl'.timestamps = rl.timestamps
             /\ rl'.latency_estimate = rl.latency_estimate
             /\ rl'.last_sent = rl.last_sent]_vars

\* a call that returned the front entry thanks to the latency estimate and
\* left a second entry, itself due, in the queue
C7_Witness ==
  /\ ret.op = "get_due_update"
  /\ ret.val = Some(<<"A">>)
  /\ rl.latency_estimate > 0
  /\ Len(rl.schedule) = 1
  /\ \E position \in ClientPositions :
       /\ position < rl.schedule[1].display_time
       /\ IsDue(rl, position)

(***************************************************************************)
(* Properties of status_loop, checked under Spec.                          *)
(***************************************************************************)
\* the line texts of the lyrics of the track with this id
LyricTexts(id) ==
  IF id = NoneVal THEN {}
  ELSE {GetTimedLines(LyricsOf(id))[i].text :
          i \in 1..Len(GetTimedLines(LyricsOf(id)))}

\* the track info texts of the tracks with this id
InfoTexts(id) == {TrackInfoText(t) : t \in {u \in Tracks : u.id = id}}

\* the line texts a text is made of
TextPieces(text) ==
  {Split(text, BATCH_SEPARATOR)[j] : j \in 1..Len(Split(text, BATCH_SEPARATOR))}

\* every queued update, and the update being sent, belongs to the track
\* status_loop last observed
OnlyCurrentTrack ==
  /\ \A k \in 1..Len(rl.schedule) :
       TextPieces(rl.schedule[k].text) \subseteq LyricTexts(status.last_track_id)
  /\ (pending # NoneVal /\ Unwrap(pending).kind = "update") =>
       \/ TextPieces(Unwrap(pending).text) \subseteq LyricTexts(status.last_track_id)
       \/ Unwrap(pending).text \in InfoTexts(status.last_track_id)

\* C8: once a poll observes a new track id and resets, no update queued for
\* the previous track is returned by get_due_update or sent: after every
\* step the queue and the call in flight hold only texts of the track last
\* observed, and the poll that observes the change leaves last_sent None
\* and returns no text of another track.
C8_NoStaleUpdate ==
  [][/\ OnlyCurrentTrack'
     /\ (StatusPollPlaying /\ Unwrap(state).track.id # status.last_track_id) =>
          /\ rl'.last_sent = NoneVal
          /\ last_poll'.popped # NoneVal =>
               TextPieces(Unwrap(last_poll'.popped))
                 \subseteq LyricTexts(Unwrap(state).track.id)]_vars

\* a poll saw the track change to t2 after earlier updates had been sent,
\* reset, rebuilt and sent the first line of t2's lyrics
C8_Witness ==
  /\ last_poll.changed
  /\ status.last_track_id = Some("t2")
  /\ rl.timestamps # <<>>
  /\ last_poll.popped = Some(<<"X", "y", " ", "Z">>)
  /\ last_poll.outcome = "update"

\* C9: a failed outbound call does not terminate status_loop.
C9_LoopSurvivesFailure == status.pc # "returned"

\* the clearing call: empty text, entered now
ClearingCall == Some(PendingCall("clear", <<>>, now))

\* C10: a poll that finds the snapshot None after a track was observed
\* issues the clearing call, whether or not the gate has capacity.
C10_ClearsRegardless ==
  [][(StatusPollStopped /\ status.last_track_id # NoneVal) =>
       pending' = ClearingCall]_vars

\* a stop observed while the gate was closed: no clearing call went out
C10_Witness ==
  /\ last_poll.outcome = "clear_skipped"
  /\ state = NoneVal
  /\ status.last_track_id = NoneVal
  /\ Len(rl.timestamps) = RATE_LIMIT_MAX_UPDATES

(***************************************************************************)
(* Properties of the latency estimate, checked under SpecLat.              *)
(***************************************************************************)
\* clamp(round_trip / 2, 10 ms, 2000 ms), stated by cases on the round trip
LatencySample(round_trip) ==
  IF round_trip < 2 * MIN_LATENCY_MS THEN MIN_LATENCY_MS
  ELSE IF round_trip >= 2 * MAX_LATENCY_MS THEN MAX_LATENCY_MS
  ELSE round_trip \div 2

\* C11: every completed outbound call updates the latency estimate from the
\* sample clamp(round_trip / 2, 10 ms, 2000 ms): the first sample replaces
\* the estimate, a later one gives 0.2 * sample + 0.8 * previous cut to whole
\* milliseconds; a first round trip of 240 ms gives 120 ms and a second of
\* 40 ms then gives 100 ms.
C11_LatencyEstimate ==
  [][(Lat_SendUpdateOk \/ Lat_ClearStatusOk) =>
       LET sample == LatencySample(now' - now)
           previous == rl.latency_estimate
           estimate == rl'.latency_estimate
       IN  /\ issued = <<>> => estimate = sample
           /\ issued # <<>> =>
                /\ 10 * estimate <= 2 * sample + 8 * previous
                /\ 2 * sample + 8 * previous < 10 * estimate + 10
           /\ (issued = <<>> /\ now' - now = 240) => estimate = 120
           /\ (Len(issued) = 1 /\ previous = 120 /\ now' - now = 40) =>
                estimate = 100]_vars

\* two calls completed, the first after 240 ms and the second after 40 ms
C11_Witness ==
  /\ phase = "latency"
  /\ issued = <<0, 240>>
  /\ now = 280
  /\ rl.latency_estimate = 100

(***************************************************************************)
(* More properties of status_loop, checked under Spec.                     *)
(***************************************************************************)
\* a poll of status_loop that reads a track id other than last_track_id
TrackChangePoll ==
  StatusPollPlaying /\ Unwrap(state).track.id # status.last_track_id

\* C12: a track change resets the latency estimate to zero, and nothing but
\* a track change or a completed call changes it.
C12_LatencyResetOnTrackChange ==
  [][/\ TrackChangePoll => rl'.latency_estimate = 0
     /\ rl'.latency_estimate # rl.latency_estimate =>
          (TrackChangePoll \/ StatusCallOk)]_vars

\* C13: build_schedule is called once per track selection: a poll that reads
\* a track with lyrics has the schedule built, by itself if it is the first
\* such poll since a new track id or a stop was seen and by that first poll
\* otherwise; the call is never repeated for the same selection, and between
\* builds the queue only loses its front entry or is cleared.
C13_BuiltOncePerSelection ==
  [][/\ last_poll'.builds <= 1
     /\ StatusPollPlaying =>
          LET playback == Unwrap(state)
              built == BuildSchedule(GetTimedLines(Unwrap(playback.lyrics)),
                                     playback.position)
          IN  /\ playback.lyrics # NoneVal => last_poll'.builds = 1
              /\ last_poll'.built =>
                   /\ playback.lyrics # NoneVal
                   /\ TrackChangePoll \/ last_poll.builds = 0
                   /\ rl'.schedule = built
                        \/ (built # <<>> /\ rl'.schedule = Tail(built))
              /\ ~last_poll'.built =>
                   \/ rl'.schedule = rl.schedule
                   \/ rl.schedule # <<>> /\ rl'.schedule = Tail(rl.schedule)
                   \/ TrackChangePoll /\ rl'.schedule = <<>>
     /\ ~StatusPollPlaying => rl'.schedule \in {rl.schedule, <<>>}]_vars

\* a later poll of the same track returned the second line of the schedule
\* the first poll had built, without building again
C13_Witness ==
  /\ last_poll.builds = 1
  /\ ~last_poll.built
  /\ ~last_poll.changed
  /\ last_poll.popped = Some(<<"C">>)
  /\ rl.timestamps # <<>>

(***************************************************************************)
(* More properties of the RateLimiter, checked under SpecRL.               *)
(***************************************************************************)
\* the rate gate has capacity at Instant t: fewer than 3 of the recorded
\* sends are at most 10 seconds old
GateOpen(t) ==
  Cardinality({i \in 1..Len(rl.timestamps) :
                 t - rl.timestamps[i] <= RATE_LIMIT_WINDOW})
    < RATE_LIMIT_MAX_UPDATES

\* C14: send_update returns Ok(false) exactly when the text equals last_sent
\* or the gate has no capacity; it then makes no outbound call and leaves
\* timestamps, latency_estimate, last_sent and the schedule as they are, so
\* the entry get_due_update popped is not put back.
C14_SuppressedSendIsNoOp ==
  [][\A text \in ClientTexts :
       /\ SendUpdateSkippedWith(text) =>
            /\ rl.last_sent = Some(text) \/ ~GateOpen(now)
            /\ rl' = rl
            /\ issued' = issued
            /\ now' = now
       /\ (SendUpdateOkWith(text) \/ SendUpdateErrWith(text)) =>
            /\ rl.last_sent # Some(text)
            /\ GateOpen(now)
            /\ issued' = Append(issued, now)]_vars

\* send_update returned Ok(false) with the gate full and C, the last text
\* sent, still at the front of the queue
C14_Witness ==
  /\ ret = Returned("send_update", "Ok(false)")
  /\ Len(rl.timestamps) = RATE_LIMIT_MAX_UPDATES
  /\ ~GateOpen(now)
  /\ rl.last_sent = Some(<<"C">>)
  /\ Len(rl.schedule) = 1
  /\ rl.schedule[1].text = <<"C">>

(***************************************************************************)
(* Retries in status_loop, checked under Spec.                             *)
(***************************************************************************)
\* C15: once the gate has denied a text, status_loop does not offer that text
\* to send_update again while the same track selection plays, be it a lyric
\* update or the track info text.
C15_NoRetryOfAnyText ==
  [][(StatusPollPlaying /\ ~TrackChangePoll /\ last_poll'.offered # NoneVal) =>
       Unwrap(last_poll'.offered) \notin last_poll.dropped]_vars

\* C15 amended: a lyric update the gate has denied is not offered again while
\* the same track selection plays: it was popped, and the queue is not
\* rebuilt.  The track info text of a track without lyrics is offered on
\* every poll, denied or not, and goes out once it differs from last_sent
\* and the gate has capacity.
C15_NoRetryOfLyricUpdates ==
  [][StatusPollPlaying =>
       LET playback == Unwrap(state) IN
       /\ (playback.lyrics # NoneVal /\ ~TrackChangePoll
             /\ last_poll'.popped # NoneVal) =>
            /\ Unwrap(last_poll'.popped) \notin last_poll.dropped
            /\ \A k \in 1..Len(rl'.schedule) :
                 rl'.schedule[k].text # Unwrap(last_poll'.popped)
       /\ playback.lyrics = NoneVal =>
            /\ last_poll'.offered = Some(TrackInfoText(playback.track))
            /\ last_poll'.outcome = "update" <=>
                 /\ rl'.last_sent # Some(TrackInfoText(playback.track))
                 /\ GateOpen(now)]_vars

\* the gate denied the lyric update C while track t1 kept playing: C has
\* left the queue
C15_Witness ==
  /\ last_poll.outcome = "denied"
  /\ last_poll.popped = Some(<<"C">>)
  /\ last_poll.dropped = {<<"C">>}
  /\ ~last_poll.changed
  /\ rl.schedule = <<>>
  /\ status.last_track_id = Some("t1")

(***************************************************************************)
(* The rate window over time, checked under SpecWin.                       *)
(***************************************************************************)
\* the timestamps that are at most one window old at Instant t
InWindow(timestamps, t) ==
  SelectSeq(timestamps, LAMBDA ts : t - ts <= RATE_LIMIT_WINDOW)

\* C16: with 3 sends accepted within 2 s, a send attempted 1 s later is
\* denied; once more than 10 s have passed since the first accepted send and
\* not since the others, has_capacity() prunes that one timestamp and one
\* further send is accepted, the next one being denied.  In general a send is
\* denied exactly when 3 timestamps are at most 10 s old, a denial prunes
\* nothing, and an accepted send prunes exactly the timestamps older than
\* 10 s.
C16_WindowFreesOneSlot ==
  [][\A text \in ClientTexts :
       /\ (SendUpdateSkippedWith(text) /\ rl.last_sent # Some(text)) =>
            /\ Len(InWindow(rl.timestamps, now)) = RATE_LIMIT_MAX_UPDATES
            /\ rl'.timestamps = rl.timestamps
       /\ SendUpdateOkWith(text) =>
            /\ Len(InWindow(rl.timestamps, now)) < RATE_LIMIT_MAX_UPDATES
            /\ rl'.timestamps = Append(InWindow(rl.timestamps, now), now')
            /\ rl.timestamps = <<240, 1480, 1720>> =>
                 /\ now > 240 + RATE_LIMIT_WINDOW
                 /\ now <= 1480 + RATE_LIMIT_WINDOW =>
                      rl'.timestamps = <<1480, 1720, now'>>
            /\ rl.timestamps = <<1480, 1720, 10960>> =>
                 now > 1480 + RATE_LIMIT_WINDOW]_vars

\* three sends were accepted within 2 s (recorded at 240, 1480 and 1720 ms);
\* at 10720 ms the first had left the window and one more send was accepted;
\* the send after it is denied
C16_Witness ==
  /\ phase = "client"
  /\ rl.timestamps = <<1480, 1720, 10960>>
  /\ now = 10960
  /\ ret = Returned("send_update", "Ok(false)")
  /\ ~GateOpen(now)

(***************************************************************************)
(* Properties of resync_loop and sync_once, checked under Spec.            *)
(***************************************************************************)
\* C17: a failed playback poll does not end resync_loop, which goes on to
\* its next cycle, and leaves the shared snapshot and last_track_id as they
\* were.
C17_ResyncSurvivesPollFailure ==
  [][/\ resync'.pc = "loop"
     /\ SyncError =>
          /\ state' = state
          /\ resync'.last_track_id = resync.last_track_id]_vars

\* the poll failed while a track was playing: the snapshot and last_track_id
\* still hold that track
C17_Witness ==
  /\ resync.failed
  /\ resync.pc = "loop"
  /\ state # NoneVal
  /\ resync.last_track_id = Some("t1")
  /\ Unwrap(state).track = Track1
  /\ status.pc # "returned"

\* "S - P, Q", the track info text of Track1
Track1InfoText == <<"S", " ", "-", " ", "P", ",", " ", "Q">>

\* C18: when the lyrics fetch or parse for a newly selected track fails,
\* sync_once succeeds all the same and replaces the snapshot with that track,
\* lyrics None and the polled position; status_loop then hands the text
\* "<track name> - <artists>" to send_update and no lyric line.
C18_FallbackToTrackInfo ==
  [][/\ \A track \in Tracks, position \in PolledPositions :
          (SyncTrackWith(track, position, FALSE)
             /\ track.id # resync.last_track_id) =>
            /\ state' = Some(CurrentPlayback(track, NoneVal, position))
            /\ resync'.last_track_id = track.id
            /\ ~resync'.failed
            /\ resync'.pc = "loop"
     /\ (StatusPollPlaying /\ Unwrap(state).lyrics = NoneVal) =>
          LET track == Unwrap(state).track
              text == track.name \o <<" ", "-", " ">>
                        \o Join(track.artists, <<",", " ">>)
          IN  /\ last_poll'.offered = Some(text)
              /\ track = Track1 => text = Track1InfoText
              /\ last_poll'.popped = NoneVal
              /\ pending' # NoneVal =>
                   Unwrap(pending') = PendingCall("update", text, now)
              /\ pending' = NoneVal =>
                   rl'.last_sent = Some(text) \/ ~GateOpen(now)]_vars

\* the lyrics fetch for t1 failed and status_loop sent "S - P, Q"
C18_Witness ==
  /\ state # NoneVal
  /\ Unwrap(state).track = Track1
  /\ Unwrap(state).lyrics = NoneVal
  /\ rl.last_sent = Some(Track1InfoText)
  /\ rl.timestamps # <<>>
  /\ last_poll.offered = Some(Track1InfoText)

(***************************************************************************)
(* Properties of get_text_at, checked under SpecText.                      *)
(***************************************************************************)
\* the text of the i-th line of the lyrics looked up
TextOfLine(i) ==
  IF in_lines.tag = "Syllable" THEN <<Letters[i], "y", " ", "z">>
  ELSE <<Letters[i]>>

\* the [start_time, end_time] of the i-th line
LineSpan(i) == TimedPart(in_lines.tag, in_lines.content[i])

\* the i-th line contains t
Contains(i, t) == LineSpan(i).start_time <= t /\ t <= LineSpan(i).end_time

Abs(x) == IF x < 0 THEN -x ELSE x

\* the distance from t to the nearer boundary of the i-th line
BoundaryDistance(i, t) ==
  LET to_start == Abs(t - LineSpan(i).start_time)
      to_end == Abs(t - LineSpan(i).end_time)
  IN  IF to_start <= to_end THEN to_start ELSE to_end

\* C20: get_text_at(t) returns the text of the first line in input order
\* that contains t; if no line contains t, the text of the first line in
\* input order whose nearer boundary is at minimal distance from t; and None
\* exactly when there are no lines.
C20_GetTextAt ==
  phase = "found" =>
    LET n == Len(in_lines.content)
        t == in_pos
        containing == {i \in 1..n : Contains(i, t)}
        nearest == {i \in 1..n :
                      \A j \in 1..n : BoundaryDistance(i, t) <= BoundaryDistance(j, t)}
        First(S) == CHOOSE i \in S : \A j \in S : i <= j
    IN  /\ ret.val = NoneVal <=> n = 0
        /\ containing # {} => ret.val = Some(TextOfLine(First(containing)))
        /\ (n > 0 /\ containing = {}) => ret.val = Some(TextOfLine(First(nearest)))

\* t lies in no line, the second and the third line are equally near and
\* nearer than the first: the second is returned
C20_Witness ==
  /\ phase = "found"
  /\ Len(in_lines.content) = 3
  /\ in_lines.tag = "Syllable"
  /\ ~\E i \in 1..3 : Contains(i, in_pos)
  /\ BoundaryDistance(2, in_pos) = BoundaryDistance(3, in_pos)
  /\ BoundaryDistance(2, in_pos) < BoundaryDistance(1, in_pos)
  /\ ret.val = Some(<<"B", "y", " ", "z">>)

(***************************************************************************)
(* Properties of the PlaybackState lock, checked under SpecLock.           *)
(***************************************************************************)
\* an HTTP call of the task is in flight
HttpInFlight(task) ==
  \/ task = "status" /\ status.pc = "awaiting"
  \/ task = "resync" /\ resync.pc \in {"polling", "fetching"}

\* the task holds a guard of the lock
HoldsGuard(task) == task \in lock.readers \/ lock.writer = Some(task)

\* C19: no task holds the PlaybackState lock across an outbound HTTP call:
\* status_loop has dropped its read guard, the clone taken, before
\* send_update or clear_status runs, and sync_once holds the write guard only
\* once the playback poll and the lyrics fetch are over.
C19_NoLockAcrossHttp ==
  /\ \A task \in {"status", "resync", "step"} :
       HttpInFlight(task) => ~HoldsGuard(task)
  /\ "status" \in lock.readers => status.pc = "cloning"
  /\ status.pc \in {"act", "awaiting"} => ~HoldsGuard("status")
  /\ lock.writer = Some("resync") =>
       resync.pc \in {"write_none", "write_track", "write_pos"}

\* send_status and fetch_lyrics are in flight while step_loop holds the
\* write guard
C19_Witness ==
  /\ phase = "locks"
  /\ HttpInFlight("status")
  /\ resync.pc = "fetching"
  /\ lock.writer = Some("step")
  /\ state # NoneVal

C22_SortedByStart ==
  phase = "timed" =>
    \A i, j \in 1..Len(ret.val) :
      i < j => ret.val[i].start_time <= ret.val[j].start_time

\* the lyrics were in chronological order and so are the timed lines
C22_Witness ==
  /\ phase = "timed"
  /\ Len(ret.val) = 3
  /\ ret.val[1].start_time < ret.val[2].start_time
  /\ ret.val[2].start_time < ret.val[3].start_time

(***************************************************************************)
(* Further properties of build_schedule, checked under SpecSched.          *)
(***************************************************************************)
\* the input line that anchors an update: the first line of its text
AnchorOf(update) == in_lines[LineOfText(Pieces(update)[1])]

\* C23: each update's display_time is the start_time of the line that
\* anchored it, the first line of its text, whether or not further lines
\* were merged into it, and display_time is non-decreasing from the front
\* to the back of the queue.
C23_AnchoredDisplayTime ==
  Built =>
    /\ \A k \in 1..Len(rl.schedule) :
         rl.schedule[k].display_time = AnchorOf(rl.schedule[k]).start_time
    /\ \A k \in 1..(Len(rl.schedule) - 1) :
         rl.schedule[k].display_time <= rl.schedule[k + 1].display_time

\* two updates, the first of which had later lines merged into it
C23_Witness ==
  /\ Built
  /\ Len(rl.schedule) >= 2
  /\ Len(Pieces(rl.schedule[1])) >= 2
  /\ \E j \in 2..Len(Pieces(rl.schedule[1])) :
       in_lines[LineOfText(Pieces(rl.schedule[1])[j])].start_time
         > rl.schedule[1].display_time

\* the upcoming lines that have started before in_pos
StartedIdx == {i \in UpcomingIdx : in_lines[i].start_time < in_pos}

\* the earliest start among the upcoming lines
FirstStart ==
  CHOOSE t \in {in_lines[i].start_time : i \in UpcomingIdx} :
    \A i \in UpcomingIdx : t <= in_lines[i].start_time

\* C25: when the first upcoming line starts before current_position, the
\* schedule opens with one update displayed at that line's start whose text
\* joins, first, that line and every following line that starts before
\* current_position; next_available having advanced to that start +
\* MIN_UPDATE_INTERVAL, the only other lines in that update are those
\* starting before it, and the next update comes no earlier.
C25_SeedFromStartedLines ==
  (Built /\ StartedIdx # {}) =>
    LET first == rl.schedule[1]
        pieces == Pieces(first)
        n == Cardinality(StartedIdx)
        next_available == FirstStart + MIN_UPDATE_INTERVAL
    IN  /\ rl.schedule # <<>>
        /\ first.display_time = FirstStart
        /\ Len(pieces) >= n
        /\ {pieces[j] : j \in 1..n} = {in_lines[i].text : i \in StartedIdx}
        /\ first.text = Join(pieces, BATCH_SEPARATOR)
        /\ {pieces[j] : j \in (n + 1)..Len(pieces)} =
             {in_lines[i].text : i \in {k \in UpcomingIdx \ StartedIdx :
                                          in_lines[k].start_time < next_available}}
        /\ Len(rl.schedule) >= 2 => rl.schedule[2].display_time >= next_available

\* at position 1500 the lines starting at 1000 and 1100 seed the first
\* update, the line starting at 3334 is merged into it and the line
\* starting at 4434 has its own update
C25_Witness ==
  /\ Built
  /\ in_pos = 1500
  /\ Cardinality(StartedIdx) = 2
  /\ Len(rl.schedule) = 2
  /\ rl.schedule[1].display_time = 1000
  /\ Len(Pieces(rl.schedule[1])) = 3
  /\ rl.schedule[2].display_time = 4434

\* the input lines have pairwise distinct start times
DistinctStarts ==
  \A i, j \in 1..Len(in_lines) :
    i # j => in_lines[i].start_time # in_lines[j].start_time

\* the input lines in the order given by the permutation f of their indices
Permuted(f) == [i \in 1..Len(in_lines) |-> in_lines[f[i]]]

\* C28: for lines with pairwise distinct start times build_schedule does
\* not depend on the order of its input: every permutation of the lines,
\* with the same current_position, gives the schedule the input gave.
C28_OrderIndependent ==
  (Built /\ DistinctStarts) =>
    \A f \in Permutations(1..Len(in_lines)) :
      BuildSchedule(Permuted(f), in_pos) = rl.schedule

\* four lines given in descending order of start time, two of them merged
\* into one update
C28_Witness ==
  /\ Built
  /\ DistinctStarts
  /\ Len(in_lines) = 4
  /\ \A i \in 1..3 : in_lines[i].start_time > in_lines[i + 1].start_time
  /\ \E k \in 1..Len(rl.schedule) : Len(Pieces(rl.schedule[k])) >= 2
  /\ Len(rl.schedule) >= 2

(***************************************************************************)
(* send_update and the outcome of the outbound call, checked under SpecRL. *)
(***************************************************************************)
\* what a completed send_update records: last_sent is the text, one
\* timestamp is appended and one latency sample folded
RecordsSend(text) ==
  /\ ret'.val = "Ok(true)"
  /\ rl'.last_sent = Some(text)
  /\ Len(rl'.timestamps) = Len(InWindow(rl.timestamps, now)) + 1
  /\ rl'.timestamps[Len(rl'.timestamps)] = now'
  /\ rl'.latency_estimate =
       IF rl.latency_estimate = 0 THEN LatencySample(now' - now)
       ELSE (2 * LatencySample(now' - now) + 8 * rl.latency_estimate) \div 10
  /\ rl'.schedule = rl.schedule

\* C24 as stated: send_update records the send only when the outbound call
\* succeeded; when the call fails it returns the error with timestamps,
\* latency_estimate and last_sent all unchanged.
C24_FailureChangesNothing ==
  [][\A text \in ClientTexts :
       /\ SendUpdateOkWith(text) => RecordsSend(text)
       /\ SendUpdateErrWith(text) =>
            /\ ret'.val = "Err"
            /\ rl'.timestamps = rl.timestamps
            /\ rl'.latency_estimate = rl.latency_estimate
            /\ rl'.last_sent = rl.last_sent]_vars

\* C24 amended: when the call fails send_update returns the error with
\* latency_estimate, last_sent and the schedule unchanged and no timestamp
\* appended; has_capacity has run before the call, so the timestamps older
\* than the window are gone and the others are as they were.
C24_FailureRecordsNothing ==
  [][\A text \in ClientTexts :
       /\ SendUpdateOkWith(text) => RecordsSend(text)
       /\ SendUpdateErrWith(text) =>
            /\ ret'.val = "Err"
            /\ rl'.timestamps = InWindow(rl.timestamps, now)
            /\ rl'.latency_estimate = rl.latency_estimate
            /\ rl'.last_sent = rl.last_sent
            /\ rl'.schedule = rl.schedule]_vars

\* a send of C failed after a send of A had been recorded: last_sent is
\* still A, and the timestamp of A, older than the window, has been pruned
C24_Witness ==
  /\ ret = Returned("send_update", "Err")
  /\ rl.last_sent = Some(<<"A">>)
  /\ rl.latency_estimate > 0
  /\ rl.timestamps = <<>>
  /\ Len(issued) >= 2
  /\ now - issued[1] > RATE_LIMIT_WINDOW

(***************************************************************************)
(* Who writes what of the snapshot, checked under SpecLock.                *)
(***************************************************************************)
\* a step of status_loop
StatusStep ==
  \/ Lk_StatusAcquire
  \/ Lk_StatusClone
  \/ Lk_StatusAct
  \/ Lk_StatusHttpOk
  \/ Lk_StatusHttpErr

\* C26: step_loop changes only the position of the shared snapshot, by
\* STEP_INTERVAL per tick and only while a snapshot is present (None stays
\* None), never the track or the lyrics; status_loop works on a copy of the
\* snapshot, never takes the write guard and never changes the shared state.
C26_DisjointWrites ==
  [][/\ Lk_StepAcquire => state' = state
     /\ Lk_StepWrite =>
          /\ state = NoneVal => state' = NoneVal
          /\ state # NoneVal =>
               /\ state' # NoneVal
               /\ Unwrap(state').track = Unwrap(state).track
               /\ Unwrap(state').lyrics = Unwrap(state).lyrics
               /\ Unwrap(state').position = Unwrap(state).position + 50
          /\ status'.current_state = status.current_state
     /\ StatusStep =>
          /\ state' = state
          /\ lock'.writer = lock.writer
          /\ lock'.writer # Some("status")
     /\ Lk_StatusClone => status'.current_state = state]_vars

\* step_loop has advanced the position of a snapshot that holds lyrics,
\* after status_loop took its copy: the copy still shows the polled position
C26_Witness ==
  /\ phase = "locks"
  /\ steps = 1
  /\ state # NoneVal
  /\ Unwrap(state).lyrics # NoneVal
  /\ Unwrap(state).position = 3350
  /\ status.pc = "act"
  /\ status.current_state # NoneVal
  /\ Unwrap(status.current_state).position = 3300

(***************************************************************************)
(* The drained schedule, checked under Spec.                               *)
(***************************************************************************)
\* a poll that reads the track status_loop already knows, with lyrics, the
\* schedule built and empty
DrainedPoll ==
  /\ StatusPollPlaying
  /\ ~TrackChangePoll
  /\ Unwrap(state).lyrics # NoneVal
  /\ status.schedule_built
  /\ rl.schedule = <<>>

\* a poll that reads the track id status_loop already knows, the schedule
\* built for it and empty
QuietPoll ==
  /\ StatusPollPlaying
  /\ ~TrackChangePoll
  /\ status.schedule_built
  /\ rl.schedule = <<>>

\* C27 as stated: once the schedule built for a track is empty, a poll that
\* observes neither another track id nor a stop makes no outbound call and
\* does not rebuild the schedule.
C27_DrainedMakesNoCall ==
  [][QuietPoll =>
       /\ pending' = NoneVal
       /\ issued' = issued
       /\ ~last_poll'.built]_vars

\* C27 amended: once the schedule of a track with lyrics is empty, a poll
\* that observes neither another track id nor a stop, and reads a snapshot
\* that still holds lyrics, makes no outbound call, hands nothing to
\* send_update, does not rebuild the schedule and leaves the RateLimiter as
\* it is.
C27_DrainedStaysQuiet ==
  [][DrainedPoll =>
       /\ pending' = NoneVal
       /\ issued' = issued
       /\ rl' = rl
       /\ status' = status
       /\ ~last_poll'.built
       /\ last_poll'.builds = last_poll.builds
       /\ last_poll'.offered = NoneVal
       /\ last_poll'.outcome = "idle"]_vars

\* A and C of track t1 have been sent, and a later poll of the same track
\* found the schedule empty and did nothing
C27_Witness ==
  /\ phase = "program"
  /\ status.pc = "poll"
  /\ status.schedule_built
  /\ status.last_track_id = Some("t1")
  /\ rl.schedule = <<>>
  /\ rl.last_sent = Some(<<"C">>)
  /\ Len(issued) = 2
  /\ last_poll.outcome = "idle"
  /\ last_poll.builds = 1
  /\ ~last_poll.changed
  /\ state # NoneVal
  /\ Unwrap(state).lyrics # NoneVal

(***************************************************************************)
(* The range of the latency estimate, checked under SpecLat.               *)
(***************************************************************************)
\* C29: the latency estimate is 0 exactly as long as no outbound call has
\* succeeded; after one or more samples it lies within [10 ms, 2000 ms], so
\* update_latency finds it 0, and lets the sample replace it, for the first
\* sample only.
C29_LatencyRange ==
  /\ rl.latency_estimate = 0 <=> issued = <<>>
  /\ issued # <<>> =>
       /\ 10 <= rl.latency_estimate
       /\ rl.latency_estimate <= 2000

\* three samples, the estimate reaching the lower bound from above
C29_Witness ==
  /\ phase = "latency"
  /\ Len(issued) = 3
  /\ issued[2] - issued[1] >= 40
  /\ now - issued[3] < 20
  /\ rl.latency_estimate <= 20

(***************************************************************************)
(* Seeking backwards, checked under Spec.                                  *)
(***************************************************************************)
\* a poll that reads the track status_loop already knows, with lyrics and
\* the schedule built
SameSelectionPoll ==
  /\ StatusPollPlaying
  /\ ~TrackChangePoll
  /\ Unwrap(state).lyrics # NoneVal
  /\ status.schedule_built

\* C30: while the same track id keeps playing, no poll rebuilds the
\* schedule, whatever the position it reads, a smaller one included: the
\* queue only loses its front, and an update get_due_update has returned is
\* neither returned again nor back in the queue.
C30_NoRebuildOnRewind ==
  [][SameSelectionPoll =>
       /\ ~last_poll'.built
       /\ last_poll'.builds = last_poll.builds
       /\ \/ rl'.schedule = rl.schedule
          \/ rl.schedule # <<>> /\ rl'.schedule = Tail(rl.schedule)
       /\ \A u \in last_poll.popped_all :
            /\ last_poll'.popped # Some(u.text)
            /\ \A k \in 1..Len(rl'.schedule) : rl'.schedule[k] # u
       /\ last_poll.popped_all \subseteq last_poll'.popped_all]_vars

\* A and C of track t1 were returned and sent, then the position went back
\* to 0 and the next poll found nothing due
C30_Witness ==
  /\ phase = "program"
  /\ last_poll.rewound
  /\ last_poll.outcome = "idle"
  /\ last_poll.builds = 1
  /\ last_poll.popped_all =
       {ScheduledUpdate(0, <<"A">>), ScheduledUpdate(3350, <<"C">>)}
  /\ rl.schedule = <<>>
  /\ rl.last_sent = Some(<<"C">>)
  /\ state # NoneVal
  /\ Unwrap(state).position = 0
  /\ status.last_track_id = Some("t1")

(***************************************************************************)
(* last_track_id and the snapshot, checked under Spec.                     *)
(***************************************************************************)
\* a cycle of sync_once that returns Ok
SyncOk == SyncNothing \/ SyncTrack

\* C34: at the end of every sync_once cycle that returns Ok, last_track_id
\* is None exactly when the snapshot is None, and otherwise is the id of the
\* snapshot's track.
C34_LastTrackIdAgrees ==
  [][SyncOk =>
       /\ resync'.last_track_id = NoneVal <=> state' = NoneVal
       /\ state' # NoneVal =>
            resync'.last_track_id = Unwrap(state').track.id]_vars

\* a cycle found the local file playing after track t1: the snapshot holds
\* the local file and last_track_id is None
C34_Witness ==
  /\ phase = "program"
  /\ state # NoneVal
  /\ Unwrap(state).track = LocalTrack
  /\ resync.last_track_id = NoneVal
  /\ ~resync.failed
  /\ status.last_track_id = Some("t1")

(***************************************************************************)
(* The lyrics fetch, checked under SpecLock.                               *)
(***************************************************************************)
\* C33: sync_once calls fetch_lyrics only in a cycle whose poll reports a
\* track id, different from last_track_id: at most once per track
\* selection.  A cycle that finds the same track id writes the position
\* alone, so after a failed fetch the snapshot keeps lyrics None for as long
\* as that track keeps playing.
C33_FetchOncePerSelection ==
  [][/\ (resync'.pc = "fetching" /\ resync.pc # "fetching") =>
          /\ resync.pc = "polling"
          /\ resync'.last_track_id # resync.last_track_id
          /\ resync'.last_track_id # NoneVal
          /\ resync'.track # NoneVal
          /\ Unwrap(resync'.track).id = resync'.last_track_id
     /\ (resync.pc = "polling" /\ resync'.pc = "write_pos") =>
          resync'.last_track_id = resync.last_track_id
     /\ (Lk_SyncWrite /\ resync.pc = "write_pos" /\ state # NoneVal) =>
          /\ state' # NoneVal
          /\ Unwrap(state').lyrics = Unwrap(state).lyrics
          /\ Unwrap(state').track = Unwrap(state).track]_vars

\* the fetch for t1 failed; a later cycle has found t1 still playing and,
\* without fetching, holds the write guard to write the new position
C33_Witness ==
  /\ phase = "locks"
  /\ resync.pc = "write_pos"
  /\ lock.writer = Some("resync")
  /\ resync.last_track_id = Some("t1")
  /\ state # NoneVal
  /\ Unwrap(state).track = Track1
  /\ Unwrap(state).lyrics = NoneVal
  /\ resync.position # Unwrap(state).position

(***************************************************************************)
(* Draining the queue, checked under SpecDrain.                            *)
(***************************************************************************)
\* status_loop has built the schedule of the track with lyrics that the
\* snapshot holds, and entries are still queued
Draining ==
  /\ state # NoneVal
  /\ Unwrap(state).lyrics # NoneVal
  /\ status.schedule_built
  /\ status.last_track_id = Unwrap(state).track.id
  /\ rl.schedule # <<>>

\* playback has stopped or another track id has been selected
SelectionEnded ==
  \/ state = NoneVal
  \/ Unwrap(state).track.id # status.last_track_id

\* status_loop has returned an error
StatusReturned == status.pc = "returned"

\* C32: while the same track keeps playing with its position advancing,
\* the queue eventually becomes empty: every entry is popped, unless the
\* selection ends, status_loop returns an error or the outbound calls of
\* the behaviour are used up.
C32_QueueDrains ==
  Draining ~> \/ rl.schedule = <<>>
              \/ SelectionEnded
              \/ StatusReturned
              \/ Len(issued) >= MaxDrainCalls

\* A and C of track t1, selected at position 0, have both been popped, the
\* position having advanced by ticks alone
C32_Witness ==
  /\ phase = "program"
  /\ state # NoneVal
  /\ Unwrap(state).lyrics # NoneVal
  /\ status.schedule_built
  /\ rl.schedule = <<>>
  /\ last_poll.popped_all =
       {ScheduledUpdate(0, <<"A">>), ScheduledUpdate(3350, <<"C">>)}
  /\ steps * STEP_INTERVAL = Unwrap(state).position
  /\ steps > 0
  /\ Len(issued) < MaxDrainCalls

(***************************************************************************)
(* The text of a track without lyrics, checked under SpecInfo.             *)
(***************************************************************************)
\* the snapshot holds track, playing without lyrics
PlayingNoLyrics(track) ==
  /\ state # NoneVal
  /\ Unwrap(state).track = track
  /\ Unwrap(state).lyrics = NoneVal

\* send_status has returned Ok for the "<name> - <artists>" text of track,
\* the last text sent
InfoDelivered(track) == rl.last_sent = Some(TrackInfoText(track))

\* a poll of status_loop that reads a playback without lyrics
InfoPollOf(track) == InfoPoll /\ PlayingNoLyrics(track)

\* C31: while a track without lyrics keeps playing and outbound calls
\* succeed, its "<name> - <artists>" text is eventually delivered; every
\* poll offers it to send_update, a denial by the rate gate only delays it,
\* and once it is the text sent last a poll makes no further call.
C31_InfoTextDelivered ==
  /\ \A track \in Tracks :
       PlayingNoLyrics(track) ~> \/ InfoDelivered(track)
                                 \/ ~PlayingNoLyrics(track)
                                 \/ StatusReturned
                                 \/ Len(issued) >= MaxLiveCalls
  /\ [][\A track \in Tracks :
         InfoPollOf(track) =>
           /\ last_poll'.offered = Some(TrackInfoText(track))
           /\ InfoDelivered(track) =>
                /\ issued' = issued
                /\ pending' = NoneVal
                /\ last_poll'.outcome = "same_as_last"
                /\ InfoDelivered(track)']_vars

\* the text of track t2, playing without lyrics, was denied by the full rate
\* gate, then sent as the fourth call of the behaviour once the window had
\* passed, and a later poll has found it the same as the text sent last
C31_Witness ==
  /\ phase = "program"
  /\ PlayingNoLyrics(Track2)
  /\ InfoDelivered(Track2)
  /\ TrackInfoText(Track2) \in last_poll.dropped
  /\ last_poll.outcome = "same_as_last"
  /\ Len(issued) = MaxLiveCalls
  /\ status.pc = "poll"

====
